---------------------------- MODULE Spec2Model ----------------------------
(***************************************************************************)
(* Verification model of the migration engine.                             *)
(*                                                                         *)
(*   Spec     FileTransformer.transformFiles / transformFile               *)
(*            (src/src/services/conversion/FileTransformer.ts)             *)
(*   SpecAst  transformWithAst and its six visitors                        *)
(*            (src/src/services/astTransformer.ts)                         *)
(*   SpecRouter  the router rule on one member access:                     *)
(*            transformMemberExpression and the three transformRouterUsage *)
(*            (src/unnamed/part_002)                                       *)
(*   SpecExec  ConversionExecutor.executeConversion / processFile          *)
(*            (src/unnamed/part_000)                                       *)
(*   SpecAnalyze  analyzeCodeStructure                                     *)
(*            (src/src/services/astTransformer.ts)                         *)
(*   SpecPage  transformPageComponent: transformWithAst, then the import   *)
(*            injection (src/src/services/astTransformer.ts)               *)
(*   SpecReducer  conversionReducer                                        *)
(*            (src/src/context/ConversionContext.tsx)                      *)
(*                                                                         *)
(* Each specification drives its own variables and leaves the other        *)
(* subsystems' variables at their idle values.                             *)
(***************************************************************************)
EXTENDS Integers, Sequences, FiniteSets, TLC

VARIABLES
    files,      \* this.files: the file names (File.name), as character sequences
    pc,         \* position of transformFiles: "loop", "await", "returned"
    i,          \* the batching loop index (0-based start of the current batch)
    task,       \* per file: the state of its transformFile promise
    reads,      \* files whose readFileContent was started
    transforms, \* files that were passed to transformCode
    result,     \* the result object of transformFiles
    details,    \* the local details array (line 39)
    errors,     \* errorCollector: the addError calls, in order
    batches,    \* the slices of line 42 handed to transformFile, in order
    readOrder,  \* the files of the current batch whose read completed (onload or
                \* onerror), in that order
    stages,     \* per file: the stages of the rewriter it went through, in order
    src,        \* transformWithAst: sourceCode (a module text)
    ast,        \* transformWithAst: the parsed tree (sequence of statements)
    pos,        \* traversal: index of the statement being visited
    phase,      \* traversal: "enter" (the statement) | "child" (its callee or initialiser)
    changes,    \* transformWithAst: the changes array
    warnings,   \* transformWithAst: the warnings array
    fired,      \* the rule firing of the last traversal step (ghost)
    tpc,        \* position of transformWithAst: "parse","traverse","generate","done"
    out,        \* the TransformResult returned
    rv,         \* router rule: which implementation is installed (0..3)
    rin,        \* router rule: the expression as parsed
    rnode,      \* router rule: the expression in the tree now
    rchanges,   \* router rule: result.changes
    rpc,        \* router rule: "visit", "requeue", "print", "done"
    rout,       \* router rule: the printed text
    xoptions,   \* executeConversion: options (source and target framework)
    xfiles,     \* executeConversion: files, each {path, content}
    xk,         \* executeConversion: index of the file the for-of loop is at
    xconverted, \* executeConversion: convertedFiles
    xpc,        \* executeConversion: "loop", "done"
    xresult,    \* executeConversion: the ConversionResult returned
    acode,      \* analyzeCodeStructure: code (a module text)
    atree,      \* analyzeCodeStructure: the parsed tree
    apos,       \* analyzeCodeStructure: index of the statement the traversal is at
    afacts,     \* analyzeCodeStructure: the local lists and flags (lines 758-763)
    apc,        \* analyzeCodeStructure: "parse", "traverse", "done"
    aresult,    \* analyzeCodeStructure: the CodeAnalysisResult returned
    ppc,        \* transformPageComponent: "call" (in transformWithAst), "returned"
    page,       \* transformPageComponent: the object returned
    state,      \* conversionReducer: the ConversionState held by useReducer
    action,     \* conversionReducer: the action dispatched last
    started     \* conversionReducer: the options the caller supplied with the last
                \* START_CONVERSION, the defaults before it and after RESET (ghost)

ftVars == <<files, pc, i, task, reads, transforms, result, details, errors, batches,
           readOrder, stages>>
astVars == <<src, ast, pos, phase, changes, warnings, fired, tpc, out>>
routerVars == <<rv, rin, rnode, rchanges, rpc, rout>>
vars == <<files, pc, i, task, reads, transforms, result, details, errors, batches,
          readOrder, stages,
          src, ast, pos, phase, changes, warnings, fired, tpc, out,
          rv, rin, rnode, rchanges, rpc, rout,
          xoptions, xfiles, xk, xconverted, xpc, xresult,
          acode, atree, apos, afacts, apc, aresult,
          ppc, page, state, action, started>>
analyzeVars == <<acode, atree, apos, afacts, apc, aresult>>
execVars == <<xoptions, xfiles, xk, xconverted, xpc, xresult>>
pageVars == <<ppc, page>>
reducerVars == <<state, action, started>>

\* what each specification leaves alone
notFT == <<astVars, routerVars, execVars, analyzeVars, pageVars, reducerVars>>
notAst == <<ftVars, routerVars, execVars, analyzeVars, pageVars, reducerVars>>
notRouter == <<ftVars, astVars, execVars, analyzeVars, pageVars, reducerVars>>
notExec == <<ftVars, astVars, routerVars, analyzeVars, pageVars, reducerVars>>
notAnalyze == <<ftVars, astVars, routerVars, execVars, pageVars, reducerVars>>
notPage == <<ftVars, routerVars, execVars, analyzeVars, reducerVars>>
notReducer == <<ftVars, astVars, routerVars, execVars, analyzeVars, pageVars>>

PageIdle ==
    /\ ppc = "idle"
    /\ page = <<>>

ReducerIdle ==
    /\ state = <<>>
    /\ action = <<>>
    /\ started = <<>>

AnalyzeIdle ==
    /\ acode = <<>>
    /\ atree = <<>>
    /\ apos = 0
    /\ afacts = <<>>
    /\ apc = "idle"
    /\ aresult = <<>>

ExecIdle ==
    /\ xoptions = <<>>
    /\ xfiles = <<>>
    /\ xk = 0
    /\ xconverted = <<>>
    /\ xpc = "idle"
    /\ xresult = <<>>

RouterIdle ==
    /\ rv = 0
    /\ rin = <<>>
    /\ rnode = <<>>
    /\ rchanges = <<>>
    /\ rpc = "idle"
    /\ rout = <<>>

(***************************************************************************)
(* Bounds                                                                  *)
(***************************************************************************)
MaxFiles == 6
MaxOffset == 2
MaxNodes == 2
MaxExecFiles == 2
MaxStatements == 2

(***************************************************************************)
(* Generic helpers                                                         *)
(***************************************************************************)
Min(a, b) == IF a < b THEN a ELSE b

Range(s) == {s[k] : k \in 1..Len(s)}

\* the number of entries of the sequence s that are in the set S
CountIn(s, S) == Cardinality({k \in 1..Len(s) : s[k] \in S})

(***************************************************************************)
(* File names and shouldSkipFile                                           *)
(***************************************************************************)
\* String.prototype.toLowerCase on the characters the model uses
LowerChar(c) ==
    CASE c = "P" -> "p" [] c = "N" -> "n" [] c = "G" -> "g"
      [] c = "S" -> "s" [] c = "V" -> "v" [] c = "T" -> "t"
      [] OTHER -> c

toLowerCase(s) == [k \in 1..Len(s) |-> LowerChar(s[k])]

endsWith(s, ext) ==
    /\ Len(ext) <= Len(s)
    /\ SubSeq(s, Len(s) - Len(ext) + 1, Len(s)) = ext

skipExtensions ==
    { <<".", "j", "p", "g">>, <<".", "p", "n", "g">>, <<".", "g", "i", "f">>,
      <<".", "s", "v", "g">>, <<".", "m", "p", "4">>, <<".", "m", "p", "3">>,
      <<".", "p", "d", "f">>, <<".", "i", "c", "o">> }

shouldSkipFileCaseSensitive(fileName) ==
    \E ext \in skipExtensions : endsWith(fileName, ext)

shouldSkipFile(fileName) ==
    \E ext \in skipExtensions : endsWith(toLowerCase(fileName), ext)

\* The inputs: distinct stems, with code and asset extensions interleaved.
Stems == <<"a", "b", "c", "d", "e", "f", "g", "h", "k", "m", "q", "r">>

Extensions ==
    << <<".", "t", "s">>,
       <<".", "P", "N", "G">>,
       <<".", "p", "n", "g", ".", "t", "s", "x">>,
       <<".", "j", "s">>,
       <<".", "s", "v", "g">>,
       <<"p", "n", "g">> >>

NameOf(k) == <<Stems[k]>> \o Extensions[((k - 1) % Len(Extensions)) + 1]

FileList(n, off) == [k \in 1..n |-> NameOf(k + off)]

(***************************************************************************)
(* FileTransformer                                                         *)
(***************************************************************************)
batchSize == 5

totalFiles == Len(files)

\* JS number division modifiedFiles / totalFiles, as an exact fraction;
\* den = 0 with num = 0 is NaN, den = 0 with num > 0 is Infinity.
DivideSwapped(m, t) == [num |-> t, den |-> m]

Divide(m, t) == [num |-> m, den |-> t]

Number(n) == [num |-> n, den |-> 1]

NumEq(r, n) == r.den > 0 /\ r.num = n * r.den

NumLeq(n, r) == r.den > 0 /\ n * r.den <= r.num

NumGeq(n, r) == r.den > 0 /\ n * r.den >= r.num

\* the slice of line 42, as the 1-based indices of the batch starting at i0
BatchSeqWide(i0) == [k \in 1..(Min(i0 + batchSize + 1, totalFiles) - i0) |-> i0 + k]

BatchSeq(i0) == [k \in 1..(Min(i0 + batchSize, totalFiles) - i0) |-> i0 + k]

Batch(i0) == Range(BatchSeq(i0))

Settled(st) == st \in {"skipped", "modified", "unmodified", "failed"}

emptyResult ==
    [transformedFiles |-> <<>>, modifiedFiles |-> 0,
     transformationRate |-> Number(0), details |-> <<>>]

\* line 113: the file counts as modified
IsModified(changed, applied) == changed /\ Len(applied) > 0

FileError(name) ==
    [code |-> "FILE_TRANSFORM_ERROR", severity |-> "warning", file |-> name]

FatalError ==
    [code |-> "FILE_TRANSFORM_FAILED", severity |-> "critical", file |-> <<>>]

\* the first synchronous part of transformFile (lines 100-107)
StartTaskRead(name) == "reading"

StartTask(name) == IF shouldSkipFile(name) THEN "skipped" ELSE "reading"


\* the catch of transformFile (lines 119-130)
OnFileErrorSilent(errs, name) == errs

OnFileError(errs, name) == Append(errs, FileError(name))

\* the catch of transformFiles (lines 70-80)
OnFatalSilent(errs) == errs

OnFatal(errs) == Append(errs, FatalError)

DetailEntry(f) == [file |-> files[f], transformations |-> task[f].transformations]

\* lines 54-55: the two writes that precede details.push
PushOnly(acc, f) ==
    [acc EXCEPT !.r.transformedFiles = Append(@, files[f])]

PushFrontAndCount(acc, f) ==
    [acc EXCEPT !.r.transformedFiles = <<files[f]>> \o @,
                !.r.modifiedFiles = @ + 1]

PushAndCount(acc, f) ==
    [acc EXCEPT !.r.transformedFiles = Append(@, files[f]),
                !.r.modifiedFiles = @ + 1]

\* the forEach body (lines 52-62) for the batch result of file f
CollectOne(acc, f) ==
    IF task[f].st = "modified"
    THEN [PushAndCount(acc, f) EXCEPT !.d = Append(@, DetailEntry(f))]
    ELSE acc

RECURSIVE CollectAll(_, _)
CollectAll(acc, idx) ==
    IF idx = <<>> THEN acc
    ELSE CollectAll(CollectOne(acc, Head(idx)), Tail(idx))

\* the stages a file goes through inside transformCode (line 110) when it
\* returns; transformCode is imported from ../codeTransformer
transformStages == <<"Parsed", "Analyzed", "Rewritten">>

\* what Promise.all resolves with (lines 45-49): one result per file of the
\* batch, in the order of the batch
batchResultsByCompletion(i0) ==
    LET InBatch(f) == f \in Batch(i0)
        NotRead(f) == \A k \in 1..Len(readOrder) : readOrder[k] # f
    IN SelectSeq(readOrder, InBatch) \o SelectSeq(BatchSeq(i0), NotRead)

batchResults(i0) == BatchSeq(i0)

\* await Promise.all (line 45): every promise of the batch has settled
AnySettled(i0) == \E f \in Batch(i0) : Settled(task[f].st)

AllSettled(i0) == \A f \in Batch(i0) : Settled(task[f].st)

\* the transformFiles of astTransformerHelper.ts (lines 454-501) runs the
\* same loop but pushes each details entry into result.details (line 481):
\* at every point its result is this one's with the local details in it
helperResult == [result EXCEPT !.details = details]

TaskOf(st, applied) == [st |-> st, transformations |-> applied]

AppliedSets == { <<>>, <<"t1">> }

FTInit ==
    /\ \E n \in 0..MaxFiles, off \in 0..MaxOffset : files = FileList(n, off)
    /\ pc = "loop"
    /\ i = 0
    /\ task = [f \in 1..Len(files) |-> TaskOf("pending", <<>>)]
    /\ reads = {}
    /\ transforms = {}
    /\ result = emptyResult
    /\ details = <<>>
    /\ errors = <<>>
    /\ batches = <<>>
    /\ readOrder = <<>>
    /\ stages = [f \in 1..Len(files) |-> <<>>]

AstIdle ==
    /\ src = <<>>
    /\ ast = <<>>
    /\ pos = 0
    /\ phase = "enter"
    /\ changes = <<>>
    /\ warnings = <<>>
    /\ fired = "none"
    /\ tpc = "idle"
    /\ out = <<>>

Init == FTInit /\ AstIdle /\ RouterIdle /\ ExecIdle /\ AnalyzeIdle /\ PageIdle /\ ReducerIdle

\* lines 41-49: the loop test passes, the batch is sliced and every
\* transformFile of it runs up to its first await
StartBatch ==
    /\ pc = "loop"
    /\ i < totalFiles
    /\ task' = [f \in 1..totalFiles |->
                  IF f \in Batch(i) THEN TaskOf(StartTask(files[f]), <<>>)
                  ELSE task[f]]
    /\ reads' = reads \cup {f \in Batch(i) : StartTask(files[f]) = "reading"}
    /\ batches' = Append(batches, BatchSeq(i))
    /\ pc' = "await"
    /\ readOrder' = <<>>
    /\ UNCHANGED <<files, i, transforms, result, details, errors, stages>>

\* reader.onerror: the read rejects and transformFile's catch records it
ReadFails(f) ==
    /\ pc = "await"
    /\ task[f].st = "reading"
    /\ task' = [task EXCEPT ![f] = TaskOf("failed", <<>>)]
    /\ errors' = OnFileError(errors, files[f])
    /\ readOrder' = Append(readOrder, f)
    /\ UNCHANGED <<files, pc, i, reads, transforms, result, details, batches, stages>>

\* reader.onload, then transformCode throws
TransformThrows(f) ==
    /\ pc = "await"
    /\ task[f].st = "reading"
    /\ transforms' = transforms \cup {f}
    /\ task' = [task EXCEPT ![f] = TaskOf("failed", <<>>)]
    /\ errors' = OnFileError(errors, files[f])
    /\ readOrder' = Append(readOrder, f)
    /\ UNCHANGED <<files, pc, i, reads, result, details, batches, stages>>

\* reader.onload, then transformCode returns (lines 110-118)
TransformReturns(f) ==
    /\ pc = "await"
    /\ task[f].st = "reading"
    /\ transforms' = transforms \cup {f}
    /\ \E changed \in BOOLEAN, applied \in AppliedSets :
         task' = [task EXCEPT ![f] =
                    IF IsModified(changed, applied)
                    THEN TaskOf("modified", applied)
                    ELSE TaskOf("unmodified", <<>>)]
    /\ readOrder' = Append(readOrder, f)
    /\ stages' = [stages EXCEPT ![f] = transformStages]
    /\ UNCHANGED <<files, pc, i, reads, result, details, errors, batches>>

\* Promise.all resolved: lines 52-62, then i += batchSize
CollectBatch ==
    /\ pc = "await"
    /\ AllSettled(i)
    /\ LET acc == CollectAll([r |-> result, d |-> details], batchResults(i))
       IN /\ result' = acc.r
          /\ details' = acc.d
    /\ i' = i + batchSize
    /\ pc' = "loop"
    /\ UNCHANGED <<files, task, reads, transforms, errors, batches, readOrder, stages>>

\* a fault while collecting: details.push of entry k throws after lines
\* 54-55 ran for it; the catch records it and returns result as it is
CollectFault ==
    /\ pc = "await"
    /\ AllSettled(i)
    /\ \E k \in Batch(i) :
         /\ task[k].st = "modified"
         /\ LET before == CollectAll([r |-> result, d |-> details],
                                     SubSeq(batchResults(i), 1, k - i - 1))
                acc == PushAndCount(before, k)
            IN /\ result' = acc.r
               /\ details' = acc.d
    /\ errors' = OnFatal(errors)
    /\ pc' = "returned"
    /\ UNCHANGED <<files, i, task, reads, transforms, batches, readOrder, stages>>

\* the loop test fails: lines 65-69
Finish ==
    /\ pc = "loop"
    /\ i >= totalFiles
    /\ result' = [result EXCEPT
                    !.transformationRate = Divide(result.modifiedFiles, totalFiles),
                    !.details = details]
    /\ pc' = "returned"
    /\ UNCHANGED <<files, i, task, reads, transforms, details, errors, batches, readOrder, stages>>

Next ==
    \/ StartBatch /\ UNCHANGED notFT
    \/ (\E f \in 1..totalFiles : ReadFails(f)) /\ UNCHANGED notFT
    \/ (\E f \in 1..totalFiles : TransformThrows(f)) /\ UNCHANGED notFT
    \/ (\E f \in 1..totalFiles : TransformReturns(f)) /\ UNCHANGED notFT
    \/ CollectBatch /\ UNCHANGED notFT
    \/ CollectFault /\ UNCHANGED notFT
    \/ Finish /\ UNCHANGED notFT

Spec == Init /\ [][Next]_vars

\* the event loop delivers every onload / onerror and runs every
\* continuation that is ready
SpecLive == Spec /\ WF_vars(Next)


(***************************************************************************)
(* transformWithAst: texts, trees and the six visitors                     *)
(***************************************************************************)
\* A statement of a module.  type is the Babel node type; the meaning of
\* a, b, c depends on it:
\*   ImportDeclaration       a = source path, b = specifier form
\*   VariableDeclaration     a = bound name, b = form of the initialiser,
\*                           c = "top" (statement of the program) | "nested"
\*   ExportNamedDeclaration  a = first bound name, b = kind of declaration,
\*                           c = what the body wraps
\*   JSXElement              a = tag name, c = "closed" | "self", attrs
\*   MemberExpression        a = object identifier, b = property
\*   CallExpression          a = callee object ("" for a plain identifier),
\*                           b = callee property or identifier, c = arguments
\*   Identifier, Statement   b = name
N(type, a, b, c, attrs) == [type |-> type, a |-> a, b |-> b, c |-> c, attrs |-> attrs]

Attr(kind, name, value) == [kind |-> kind, name |-> name, value |-> value]

JA(name, value) == Attr("JSXAttribute", name, value)

\* a module text: its statements and how it is laid out;
\* "broken" is a text the parser rejects
Text(nodes, form) == [nodes |-> nodes, form |-> form]

\* a member access (or call on one) whose property name is empty prints as
\* "obj." and is not an expression
EmptyProperty(n) ==
    n.type \in {"MemberExpression", "CallExpression"} /\ n.a # "" /\ n.b = ""

\* parser.parse (lines 317-326): the tree keeps no layout
ParseThrows(text) ==
    \/ text.form = "broken"
    \/ \E k \in 1..Len(text.nodes) : EmptyProperty(text.nodes[k])

ParseTree(text) == text.nodes

\* generate (lines 339-345) prints the tree in the generator's own layout
Generate(tree, source) == Text(tree, "canonical")

Change(rule, x, y) == [rule |-> rule, x |-> x, y |-> y]

Warning(rule, x) == [rule |-> rule, x |-> x]

\* what one visitor call did: the statements that now stand in place of the
\* visited one, the entries pushed, whether it threw, whether the path was
\* replaced (and is queued again), and the rule that matched
Outcome(nodes, ch, wa, throws, replaced, rule) ==
    [nodes |-> nodes, ch |-> ch, wa |-> wa, throws |-> throws,
     replaced |-> replaced, rule |-> rule]

NoMatch(n) == Outcome(<<n>>, <<>>, <<>>, FALSE, FALSE, "none")

\* transformImportDeclaration (lines 368-411)
ImportTarget(source) ==
    CASE source = "next/image" -> "@unpic/react"
      [] source = "next/link" -> "react-router-dom"
      [] source = "next/head" -> "react-helmet-async"
      [] source = "next/router" -> "react-router-dom"
      [] OTHER -> source

transformImportDeclaration(n) ==
    IF n.a \in {"next/image", "next/link", "next/head", "next/router"}
    THEN Outcome(<<[n EXCEPT !.a = ImportTarget(n.a)]>>,
                 <<Change("import", n.a, ImportTarget(n.a))>>, <<>>,
                 FALSE, FALSE, "import")
    ELSE IF n.a = "next/dynamic" /\ n.b \in {"default", "named:dynamic"}
    \* parseExpression of an import declaration throws (lines 401-403)
    THEN Outcome(<<n>>, <<>>, <<>>, TRUE, FALSE, "import")
    ELSE NoMatch(n)

\* transformVariableDeclarator (lines 416-452)
transformVariableDeclarator(n) ==
    IF n.b = "dynamic:importLiteral"
    THEN Outcome(<<[n EXCEPT !.b = "lazy"]>>,
                 <<Change("dynamic", "dynamic", "lazy")>>, <<>>,
                 FALSE, FALSE, "dynamic")
    ELSE NoMatch(n)

\* transformExportNamedDeclaration (lines 457-516)
DataFetchingNames == {"getServerSideProps", "getStaticProps", "getStaticPaths"}

HookNameSwapped(fnName) ==
    IF fnName = "getServerSideProps" THEN "useFetchData"
    ELSE IF fnName = "getStaticPaths" THEN "useStaticData"
    ELSE "useAvailablePaths"

HookName(fnName) ==
    IF fnName = "getServerSideProps" THEN "useFetchData"
    ELSE IF fnName = "getStaticProps" THEN "useStaticData"
    ELSE "useAvailablePaths"

ExportFnName(n) ==
    IF n.b \in {"FunctionDeclaration", "VariableDeclaration"} THEN n.a ELSE ""

transformExportNamedDeclaration(n) ==
    IF n.b # "none" /\ ExportFnName(n) \in DataFetchingNames
    THEN Outcome(<<N("ExportNamedDeclaration", HookName(ExportFnName(n)),
                     "FunctionDeclaration", "useQuery", <<>>)>>,
                 <<Change("dataFetching", ExportFnName(n), HookName(ExportFnName(n)))>>,
                 <<>>, FALSE, TRUE, "dataFetching")
    ELSE NoMatch(n)

\* transformJSXElement (lines 521-634)
IsNamed(at, names) == at.kind = "JSXAttribute" /\ at.name \in names

ImageDropped(at) == IsNamed(at, {"priority", "placeholder"})

ImageKept(at) == ~ImageDropped(at)

ImageWarning(at) == Warning("Image", at.name)

ImageWarnings(attrs) ==
    LET dropped == SelectSeq(attrs, ImageDropped)
    IN [k \in 1..Len(dropped) |-> ImageWarning(dropped[k])]

ImageAttributes(attrs) ==
    LET kept == SelectSeq(attrs, ImageKept)
    IN IF \E k \in 1..Len(kept) : IsNamed(kept[k], {"layout"})
       THEN kept
       ELSE Append(kept, Attr("AssignmentExpression", "layout", "responsive"))

LinkKept(at) == ~IsNamed(at, {"passHref", "legacyBehavior"})

LinkRename(at) == IF IsNamed(at, {"href"}) THEN [at EXCEPT !.name = "to"] ELSE at

LinkAttributes(attrs) ==
    LET kept == SelectSeq(attrs, LinkKept)
    IN [k \in 1..Len(kept) |-> LinkRename(kept[k])]

ScriptKept(at) == ~IsNamed(at, {"strategy"})

transformJSXElement(n) ==
    CASE n.a = "Image" ->
           Outcome(<<[n EXCEPT !.attrs = ImageAttributes(n.attrs)]>>,
                   <<Change("jsx", "Image", "Image")>>,
                   ImageWarnings(n.attrs),
                   FALSE, FALSE, "jsx")
      [] n.a = "Link" ->
           Outcome(<<[n EXCEPT !.attrs = LinkAttributes(n.attrs)]>>,
                   <<Change("jsx", "Link", "Link")>>, <<>>, FALSE, FALSE, "jsx")
      [] n.a = "Head" ->
           Outcome(<<[n EXCEPT !.a = "Helmet"]>>,
                   <<Change("jsx", "Head", "Helmet")>>, <<>>, FALSE, FALSE, "jsx")
      [] n.a = "Script" ->
           IF \E k \in 1..Len(n.attrs) :
                 IsNamed(n.attrs[k], {"strategy"}) /\ n.attrs[k].value = "lazyOnload"
           \* parseExpression('defer={true}') throws (line 614)
           THEN Outcome(<<[n EXCEPT !.a = "script"]>>, <<>>, <<>>, TRUE, FALSE, "jsx")
           ELSE Outcome(<<[n EXCEPT !.a = "script",
                                    !.attrs = SelectSeq(n.attrs, ScriptKept)]>>,
                        <<Change("jsx", "Script", "script")>>, <<>>, FALSE, FALSE, "jsx")
      [] OTHER -> NoMatch(n)

\* transformMemberExpression (lines 639-667), on the member access obj.prop
\* held by statement n (the statement itself or the callee of a call)
MemberTarget(n, prop) ==
    IF prop = "push" THEN
        IF n.type = "CallExpression" THEN [n EXCEPT !.a = "", !.b = "navigate"]
        ELSE N("Identifier", "", "navigate", "", <<>>)
    ELSE IF prop = "query" THEN
        IF n.type = "CallExpression" THEN [n EXCEPT !.a = "", !.b = "params"]
        ELSE N("Identifier", "", "params", "", <<>>)
    ELSE [n EXCEPT !.a = "location", !.b = "pathname"]

transformMemberExpression(n) ==
    IF n.a = "router" /\ n.b \in {"push", "query", "asPath", "pathname"}
    THEN Outcome(<<MemberTarget(n, n.b)>>,
                 <<Change("router", n.b,
                          IF n.b = "push" THEN "navigate"
                          ELSE IF n.b = "query" THEN "params" ELSE "location.pathname")>>,
                 <<>>, FALSE, TRUE, "router")
    ELSE NoMatch(n)

\* transformCallExpression (lines 672-752) on a call statement
HookDeclaration(name, hook) == N("VariableDeclaration", name, hook, "top", <<>>)

transformCallExpression(n) ==
    IF n.a = "router" /\ n.b = "replace" /\ n.c # "noargs"
    THEN Outcome(<<[n EXCEPT !.a = "", !.b = "navigate", !.c = "path,{replace:true}"]>>,
                 <<Change("call", "router.replace", "navigate")>>, <<>>,
                 FALSE, TRUE, "call")
    ELSE IF n.a = "router" /\ n.b = "back"
    THEN Outcome(<<[n EXCEPT !.a = "", !.b = "navigate", !.c = "-1"]>>,
                 <<Change("call", "router.back", "navigate")>>, <<>>,
                 FALSE, TRUE, "call")
    ELSE NoMatch(n)

\* transformCallExpression on the initialiser of declarator n: only the
\* useRouter() branch (lines 707-750) can match there
transformCallInDeclarator(n) ==
    IF n.b = "useRouter" /\ n.a = "router"
    THEN Outcome(IF n.c = "top"
                 THEN <<HookDeclaration("navigate", "useNavigate"),
                        HookDeclaration("params", "useParams"),
                        HookDeclaration("location", "useLocation")>>
                 ELSE <<n>>,
                 <<Change("call", "useRouter", "useNavigate,useParams,useLocation")>>,
                 <<>>, FALSE, FALSE, "call")
    ELSE NoMatch(n)

\* the visitor the traversal calls when it enters statement n
EnterVisitor(n) ==
    CASE n.type = "ImportDeclaration" -> transformImportDeclaration(n)
      [] n.type = "VariableDeclaration" -> transformVariableDeclarator(n)
      [] n.type = "ExportNamedDeclaration" -> transformExportNamedDeclaration(n)
      [] n.type = "JSXElement" -> transformJSXElement(n)
      [] n.type = "MemberExpression" -> transformMemberExpression(n)
      [] n.type = "CallExpression" -> transformCallExpression(n)
      [] OTHER -> NoMatch(n)

\* the statement has a child the visitors look at: the call initialising a
\* declarator, or the member access a call is made on
HasChild(n) ==
    \/ n.type = "VariableDeclaration" /\ n.b \in {"useRouter", "lazy", "dynamic:importExpr", "dynamic:block"}
    \/ n.type = "CallExpression" /\ n.a # ""

ChildVisitor(n) ==
    IF n.type = "VariableDeclaration" THEN transformCallInDeclarator(n)
    ELSE transformMemberExpression(n)

Splice(tree, k, nodes) ==
    SubSeq(tree, 1, k - 1) \o nodes \o SubSeq(tree, k + 1, Len(tree))

ErrorWarning == Warning("AST transformation error", "")

\* The statements the input modules are built from.
NodePool ==
    { N("ImportDeclaration", "next/image", "default", "", <<>>),
      N("ImportDeclaration", "next/router", "named:other", "", <<>>),
      N("ImportDeclaration", "next/dynamic", "default", "", <<>>),
      N("ImportDeclaration", "next/dynamic", "namespace", "", <<>>),
      N("ImportDeclaration", "react", "default", "", <<>>),
      N("VariableDeclaration", "router", "useRouter", "top", <<>>),
      N("VariableDeclaration", "router", "useRouter", "nested", <<>>),
      N("VariableDeclaration", "Chart", "dynamic:importLiteral", "top", <<>>),
      N("VariableDeclaration", "x", "literal", "top", <<>>),
      N("ExportNamedDeclaration", "getStaticProps", "FunctionDeclaration", "body", <<>>),
      N("ExportNamedDeclaration", "getServerSideProps", "VariableDeclaration", "body", <<>>),
      N("ExportNamedDeclaration", "getStaticPaths", "FunctionDeclaration", "body", <<>>),
      N("ExportNamedDeclaration", "getStaticProps", "ObjectPattern", "body", <<>>),
      N("ExportNamedDeclaration", "helper", "FunctionDeclaration", "body", <<>>),
      N("JSXElement", "Image", "", "self", <<JA("src", "a"), JA("priority", "")>>),
      N("JSXElement", "Image", "", "self", <<JA("priority", ""), JA("placeholder", "blur")>>),
      N("JSXElement", "Image", "", "self", <<JA("src", "a"), JA("layout", "fill")>>),
      N("JSXElement", "Link", "", "closed", <<JA("href", "/x"), JA("passHref", "")>>),
      N("JSXElement", "Head", "", "closed", <<>>),
      N("JSXElement", "Script", "", "self", <<JA("strategy", "lazyOnload")>>),
      N("JSXElement", "Script", "", "self", <<JA("src", "a"), JA("strategy", "afterInteractive")>>),
      N("JSXElement", "div", "", "closed", <<JA("priority", "")>>),
      N("MemberExpression", "router", "query", "", <<>>),
      N("MemberExpression", "router", "pathname", "", <<>>),
      N("MemberExpression", "router", "events", "", <<>>),
      N("CallExpression", "router", "push", "args", <<>>),
      N("CallExpression", "router", "replace", "args", <<>>),
      N("CallExpression", "router", "back", "noargs", <<>>),
      N("CallExpression", "", "fetch", "args", <<>>),
      N("Statement", "", "x", "", <<>>) }

Modules == UNION {[1..n -> NodePool] : n \in 0..MaxNodes}

noResult == [code |-> Text(<<>>, "none"), warnings |-> <<>>, changes |-> <<>>]

\* the catch of transformWithAst (lines 353-362)
CatchKeepChanges(source, wa, ch) ==
    [code |-> source, warnings |-> Append(wa, ErrorWarning), changes |-> ch]

Catch(source, wa, ch) ==
    [code |-> source, warnings |-> Append(wa, ErrorWarning), changes |-> <<>>]

AstInit ==
    /\ \/ \E m \in Modules, form \in {"canonical", "loose"} : src = Text(m, form)
       \/ src = Text(<<>>, "broken")
    /\ ast = <<>>
    /\ pos = 0
    /\ phase = "enter"
    /\ changes = <<>>
    /\ warnings = <<>>
    /\ fired = "none"
    /\ tpc = "parse"
    /\ out = noResult

FTIdle ==
    /\ files = <<>>
    /\ pc = "idle"
    /\ i = 0
    /\ task = <<>>
    /\ reads = {}
    /\ transforms = {}
    /\ result = emptyResult
    /\ details = <<>>
    /\ errors = <<>>
    /\ batches = <<>>
    /\ readOrder = <<>>
    /\ stages = <<>>

InitAst == AstInit /\ FTIdle /\ RouterIdle /\ ExecIdle /\ AnalyzeIdle /\ PageIdle /\ ReducerIdle

ParseOk ==
    /\ tpc = "parse"
    /\ ~ParseThrows(src)
    /\ ast' = ParseTree(src)
    /\ pos' = 1
    /\ tpc' = "traverse"
    /\ UNCHANGED <<src, phase, changes, warnings, fired, out>>

ParseFails ==
    /\ tpc = "parse"
    /\ ParseThrows(src)
    /\ warnings' = Append(warnings, ErrorWarning)
    /\ out' = Catch(src, warnings, changes)
    /\ tpc' = "done"
    /\ UNCHANGED <<src, ast, pos, phase, changes, fired>>

Current == ast[pos]

VisitOutcome == IF phase = "enter" THEN EnterVisitor(Current) ELSE ChildVisitor(Current)

\* where the traversal goes after a visitor call that left statement n
\* (one statement) or a spliced list of statements at pos
NextPhase(o) ==
    IF Len(o.nodes) # 1 THEN "enter"
    ELSE IF phase = "enter"
         THEN IF o.replaced THEN "enter"
              ELSE IF HasChild(o.nodes[1]) THEN "child" ELSE "enter"
         ELSE IF o.replaced /\ HasChild(o.nodes[1]) THEN "child" ELSE "enter"

Stays(o) ==
    /\ Len(o.nodes) = 1
    /\ \/ o.replaced /\ (phase = "enter" \/ HasChild(o.nodes[1]))
       \/ phase = "enter" /\ HasChild(o.nodes[1])

\* one visitor call of traverse (lines 329-336) that returns normally
Visit ==
    /\ tpc = "traverse"
    /\ pos <= Len(ast)
    /\ ~VisitOutcome.throws
    /\ LET o == VisitOutcome
       IN /\ ast' = Splice(ast, pos, o.nodes)
          /\ changes' = changes \o o.ch
          /\ warnings' = warnings \o o.wa
          /\ fired' = o.rule
          /\ phase' = NextPhase(o)
          /\ pos' = IF Stays(o) THEN pos ELSE pos + Len(o.nodes)
    /\ UNCHANGED <<src, tpc, out>>

\* a visitor call that throws: control goes to the catch
VisitThrows ==
    /\ tpc = "traverse"
    /\ pos <= Len(ast)
    /\ VisitOutcome.throws
    /\ warnings' = Append(warnings, ErrorWarning)
    /\ out' = Catch(src, warnings, changes)
    /\ fired' = "none"
    /\ tpc' = "done"
    /\ UNCHANGED <<src, ast, pos, phase, changes>>

\* lines 339-351: print the tree and return
GenerateAndReturn ==
    /\ tpc = "traverse"
    /\ pos > Len(ast)
    /\ out' = [code |-> Generate(ast, src), warnings |-> warnings, changes |-> changes]
    /\ fired' = "none"
    /\ tpc' = "done"
    /\ UNCHANGED <<src, ast, pos, phase, changes, warnings>>

NextAst ==
    \/ ParseOk /\ UNCHANGED notAst
    \/ ParseFails /\ UNCHANGED notAst
    \/ Visit /\ UNCHANGED notAst
    \/ VisitThrows /\ UNCHANGED notAst
    \/ GenerateAndReturn /\ UNCHANGED notAst

SpecAst == InitAst /\ [][NextAst]_vars

(***************************************************************************)
(* The router rule on one member access (src/unnamed/part_002)             *)
(***************************************************************************)
RouterChange(prop) ==
    Change("router", prop,
           IF prop = "push" THEN "navigate"
           ELSE IF prop = "query" THEN "params" ELSE "location.pathname")

\* transformRouterUsage, first copy (lines 338-371): the node is edited in
\* place; for push and query the property becomes t.identifier('')
transformRouterUsage1(n) ==
    IF n.a = "router" /\ n.b \in {"push", "query"}
    THEN Outcome(<<[n EXCEPT !.a = IF n.b = "push" THEN "navigate" ELSE "params",
                             !.b = ""]>>,
                 <<RouterChange(n.b)>>, <<>>, FALSE, FALSE, "router")
    ELSE IF n.a = "router" /\ n.b \in {"asPath", "pathname"}
    THEN Outcome(<<[n EXCEPT !.a = "location", !.b = "pathname"]>>,
                 <<RouterChange(n.b)>>, <<>>, FALSE, FALSE, "router")
    ELSE NoMatch(n)

\* transformRouterUsage, second copy (lines 378-406): path.replaceWith
transformRouterUsage2(n) ==
    IF n.a = "router" /\ n.b \in {"push", "query", "asPath", "pathname"}
    THEN Outcome(<<MemberTarget(n, n.b)>>, <<RouterChange(n.b)>>,
                 <<>>, FALSE, TRUE, "router")
    ELSE NoMatch(n)

\* transformRouterUsage, third copy (lines 413-443): path.replaceWith
transformRouterUsage3(n) ==
    IF n.a = "router" /\ n.b \in {"push", "query", "asPath", "pathname"}
    THEN Outcome(<<MemberTarget(n, n.b)>>, <<RouterChange(n.b)>>,
                 <<>>, FALSE, TRUE, "router")
    ELSE NoMatch(n)

RouterRule(v, n) ==
    CASE v = 0 -> transformMemberExpression(n)
      [] v = 1 -> transformRouterUsage1(n)
      [] v = 2 -> transformRouterUsage2(n)
      [] v = 3 -> transformRouterUsage3(n)

\* the member accesses and calls on a member the rule is tried on
RouterObjects == {"router", "Router", "history", "navigate"}

RouterProperties ==
    {"push", "query", "asPath", "pathname", "events", "replace", "Push", "route"}

RouterInputs ==
    {N("MemberExpression", o, p, "", <<>>) : o \in RouterObjects, p \in RouterProperties}
    \cup {N("CallExpression", o, p, "args", <<>>) : o \in RouterObjects, p \in RouterProperties}

\* the node still holds a member access the MemberExpression visitor sees
HasMember(n) == n.type \in {"MemberExpression", "CallExpression"} /\ n.a # ""

RouterInit ==
    /\ rv \in 0..3
    /\ rin \in RouterInputs
    /\ rnode = rin
    /\ rchanges = <<>>
    /\ rpc = "visit"
    /\ rout = Text(<<>>, "none")

InitRouter == RouterInit /\ FTIdle /\ AstIdle /\ ExecIdle /\ AnalyzeIdle /\ PageIdle /\ ReducerIdle

\* the traversal calls the visitor on the member access
RouterVisit ==
    /\ rpc = "visit"
    /\ LET o == RouterRule(rv, rnode)
       IN /\ rnode' = o.nodes[1]
          /\ rchanges' = rchanges \o o.ch
          /\ rpc' = IF o.replaced /\ HasMember(o.nodes[1]) THEN "requeue" ELSE "print"
    /\ UNCHANGED <<rv, rin, rout>>

\* path.replaceWith queued the new member access: the visitor runs on it
RouterRequeue ==
    /\ rpc = "requeue"
    /\ LET o == RouterRule(rv, rnode)
       IN /\ rnode' = o.nodes[1]
          /\ rchanges' = rchanges \o o.ch
          /\ rpc' = IF o.replaced /\ HasMember(o.nodes[1]) THEN "requeue" ELSE "print"
    /\ UNCHANGED <<rv, rin, rout>>

\* the tree is printed
RouterPrint ==
    /\ rpc = "print"
    /\ rout' = Generate(<<rnode>>, rin)
    /\ rpc' = "done"
    /\ UNCHANGED <<rv, rin, rnode, rchanges>>

NextRouter ==
    \/ RouterVisit /\ UNCHANGED notRouter
    \/ RouterRequeue /\ UNCHANGED notRouter
    \/ RouterPrint /\ UNCHANGED notRouter

SpecRouter == InitRouter /\ [][NextRouter]_vars

(***************************************************************************)
(* ConversionExecutor (src/unnamed/part_000)                               *)
(***************************************************************************)
LowerLetters == <<"a", "b", "c", "d", "e", "f", "g", "h", "i", "j", "k", "l", "m", "n", "o", "p", "q", "r", "s", "t", "u", "v", "w", "x", "y", "z">>

UpperLetters == <<"A", "B", "C", "D", "E", "F", "G", "H", "I", "J", "K", "L", "M", "N", "O", "P", "Q", "R", "S", "T", "U", "V", "W", "X", "Y", "Z">>

\* String.prototype.toUpperCase / toLowerCase on one character
UpperOf(c) ==
    IF \E k \in 1..Len(LowerLetters) : LowerLetters[k] = c
    THEN UpperLetters[CHOOSE k \in 1..Len(LowerLetters) : LowerLetters[k] = c]
    ELSE c

LowerOf(c) ==
    IF \E k \in 1..Len(UpperLetters) : UpperLetters[k] = c
    THEN LowerLetters[CHOOSE k \in 1..Len(UpperLetters) : UpperLetters[k] = c]
    ELSE c

includes(s, sub) ==
    \E k \in 0..(Len(s) - Len(sub)) : SubSeq(s, k + 1, k + Len(sub)) = sub

\* path.split('/').pop() || ''
LastSlash(s) ==
    IF \E k \in 1..Len(s) : s[k] = "/"
    THEN CHOOSE k \in 1..Len(s) : s[k] = "/" /\ \A j \in (k + 1)..Len(s) : s[j] # "/"
    ELSE 0

FileNameOf(path) == SubSeq(path, LastSlash(path) + 1, Len(path))

ExtJs == <<".", "j", "s">>
ExtJsx == <<".", "j", "s", "x">>
ExtTs == <<".", "t", "s">>
ExtTsx == <<".", "t", "s", "x">>

\* fileName.replace(/\.(jsx|tsx|js|ts)$/, '')
StripExtension(name) ==
    IF endsWith(name, ExtJsx) \/ endsWith(name, ExtTsx)
    THEN SubSeq(name, 1, Len(name) - 4)
    ELSE IF endsWith(name, ExtJs) \/ endsWith(name, ExtTs)
    THEN SubSeq(name, 1, Len(name) - 3)
    ELSE name

\* pageName.charAt(0).toUpperCase() + pageName.slice(1)
KeepCase(name) == name

Capitalize(name) ==
    IF name = <<>> THEN <<>> ELSE <<UpperOf(name[1])>> \o Tail(name)

LowerCaseName(name) == [k \in 1..Len(name) |-> LowerOf(name[k])]

StrNodeModules == <<"n", "o", "d", "e", "_", "m", "o", "d", "u", "l", "e", "s">>
StrPages == <<"p", "a", "g", "e", "s", "/">>
StrSrcPages == <<"s", "r", "c", "/", "p", "a", "g", "e", "s", "/">>
StrApp == <<"_", "a", "p", "p">>
StrDocument == <<"_", "d", "o", "c", "u", "m", "e", "n", "t">>
StrIndex == <<"i", "n", "d", "e", "x">>
StrHome == <<"h", "o", "m", "e">>
HomePath == <<"s", "r", "c", "/", "p", "a", "g", "e", "s", "/", "H", "o", "m", "e", ".", "t", "s", "x">>
AppPath == <<"s", "r", "c", "/", "A", "p", "p", ".", "t", "s", "x">>
IndexPath == <<"p", "a", "g", "e", "s", "/", "i", "n", "d", "e", "x", ".", "t", "s", "x">>

Options(source, target) == [sourceFramework |-> source, targetFramework |-> target]

NextToReact(options) ==
    options.sourceFramework = "nextjs" /\ options.targetFramework = "react"

ReactToNext(options) ==
    options.sourceFramework = "react" /\ options.targetFramework = "nextjs"

\* processFile lines 133-141: the file is not converted at all
ReturnsNull(path) ==
    \/ includes(path, StrNodeModules)
    \/ ~(endsWith(path, ExtJs) \/ endsWith(path, ExtJsx)
           \/ endsWith(path, ExtTs) \/ endsWith(path, ExtTsx))

\* which conversion processFile picks (lines 147-183)
EntryPath(path, options) ==
    IF NextToReact(options)
    THEN IF includes(path, StrPages) THEN "page"
         ELSE IF includes(path, StrApp) \/ includes(path, StrDocument) THEN "app"
         ELSE "generic"
    ELSE IF ReactToNext(options)
    THEN IF includes(path, StrSrcPages) THEN "next" ELSE "generic"
    ELSE "generic"

\* lines 154-162
PageDestination(path) ==
    LET pageName == StripExtension(FileNameOf(path))
    IN IF pageName = StrIndex THEN HomePath
       ELSE StrSrcPages \o Capitalize(pageName) \o ExtTsx

\* lines 174-182
NextDestination(path) ==
    LET pageName == LowerCaseName(StripExtension(FileNameOf(path)))
    IN IF pageName = StrHome THEN IndexPath
       ELSE StrPages \o pageName \o ExtTsx

NewPath(path, options) ==
    CASE EntryPath(path, options) = "page" -> PageDestination(path)
      [] EntryPath(path, options) = "app" -> AppPath
      [] EntryPath(path, options) = "next" -> NextDestination(path)
      [] OTHER -> path

\* AstTransformer.parseCode rethrows what the parser throws
\* (astTransformer.ts lines 26-42); it is the first call of both
\* transformNextPageToReactComponent and transformReactToNextJs
TransformThrowsOn(path, content, options) ==
    /\ ~ReturnsNull(path)
    /\ EntryPath(path, options) \in {"page", "next"}
    /\ content = "broken"

ConvertedContent(path, content, options) ==
    [by |-> EntryPath(path, options),
     of |-> IF EntryPath(path, options) = "app" THEN "template" ELSE content]

\* the ConvertedFile processFile returns (lines 185-189)
processFile(path, content, options) ==
    [path |-> NewPath(path, options),
     content |-> ConvertedContent(path, content, options),
     originalPath |-> path]

\* generateAllCICDTemplates('converted-project', 'converted-project-bucket')
\* (astTransformerHelper.ts lines 257-276)
TemplateCloudformation == <<"c", "l", "o", "u", "d", "f", "o", "r", "m", "a", "t", "i", "o", "n", ".", "y", "m", "l">>
TemplateGithubActions == <<".", "g", "i", "t", "h", "u", "b", "/", "w", "o", "r", "k", "f", "l", "o", "w", "s", "/", "c", "i", "-", "c", "d", ".", "y", "m", "l">>
TemplateDockerfile == <<"D", "o", "c", "k", "e", "r", "f", "i", "l", "e">>
TemplateVercelConfig == <<"v", "e", "r", "c", "e", "l", ".", "j", "s", "o", "n">>

cicdTemplates ==
    << TemplateCloudformation, TemplateGithubActions, TemplateDockerfile,
       TemplateVercelConfig >>

TemplateFiles ==
    [k \in 1..Len(cicdTemplates) |->
        [path |-> cicdTemplates[k], content |-> [by |-> "cicd", of |-> "template"],
         originalPath |-> <<>>]]

\* the source paths the runs are built from
PathPagesIndex == <<"p", "a", "g", "e", "s", "/", "i", "n", "d", "e", "x", ".", "t", "s", "x">>
PathPagesBlogIndex == <<"p", "a", "g", "e", "s", "/", "b", "l", "o", "g", "/", "i", "n", "d", "e", "x", ".", "t", "s", "x">>
PathPagesAbout == <<"p", "a", "g", "e", "s", "/", "a", "b", "o", "u", "t", ".", "j", "s">>
PathPagesHome == <<"p", "a", "g", "e", "s", "/", "h", "o", "m", "e", ".", "t", "s", "x">>
PathPagesApp == <<"p", "a", "g", "e", "s", "/", "_", "a", "p", "p", ".", "t", "s", "x">>
PathRootApp == <<"_", "a", "p", "p", ".", "j", "s">>
PathSrcDocument == <<"s", "r", "c", "/", "_", "d", "o", "c", "u", "m", "e", "n", "t", ".", "j", "s", "x">>
PathComponentsNav == <<"c", "o", "m", "p", "o", "n", "e", "n", "t", "s", "/", "n", "a", "v", ".", "t", "s", "x">>
PathNodeModulesPage == <<"n", "o", "d", "e", "_", "m", "o", "d", "u", "l", "e", "s", "/", "p", "a", "g", "e", "s", "/", "a", ".", "j", "s">>
PathStylesMain == <<"s", "t", "y", "l", "e", "s", "/", "m", "a", "i", "n", ".", "c", "s", "s">>
PathSrcPagesHome == <<"s", "r", "c", "/", "p", "a", "g", "e", "s", "/", "H", "o", "m", "e", ".", "t", "s", "x">>
PathSrcPagesAbout == <<"s", "r", "c", "/", "p", "a", "g", "e", "s", "/", "A", "b", "o", "u", "t", ".", "t", "s", "x">>

ExecPaths ==
    { PathPagesIndex,
      PathPagesBlogIndex,
      PathPagesAbout,
      PathPagesHome,
      PathPagesApp,
      PathRootApp,
      PathSrcDocument,
      PathComponentsNav,
      PathNodeModulesPage,
      PathStylesMain,
      PathSrcPagesHome,
      PathSrcPagesAbout }

ExecFile(path, content) == [path |-> path, content |-> content]

ExecFiles == {ExecFile(p, c) : p \in ExecPaths, c \in {"ok", "broken"}}

ExecInputs == UNION {[1..n -> ExecFiles] : n \in 0..MaxExecFiles}

Frameworks == {"nextjs", "react"}

ExecInit ==
    /\ xoptions \in {Options(a, b) : a \in Frameworks, b \in Frameworks}
    /\ xfiles \in ExecInputs
    /\ xk = 1
    /\ xconverted = <<>>
    /\ xpc = "loop"
    /\ xresult = <<>>

InitExec == ExecInit /\ FTIdle /\ AstIdle /\ RouterIdle /\ AnalyzeIdle /\ PageIdle /\ ReducerIdle

\* one turn of the for-of loop (lines 90-95) in which processFile returns
ExecProcessFile ==
    /\ xpc = "loop"
    /\ xk <= Len(xfiles)
    /\ ~TransformThrowsOn(xfiles[xk].path, xfiles[xk].content, xoptions)
    /\ xconverted' =
          IF ReturnsNull(xfiles[xk].path) THEN xconverted
          ELSE Append(xconverted, processFile(xfiles[xk].path, xfiles[xk].content, xoptions))
    /\ xk' = xk + 1
    /\ UNCHANGED <<xoptions, xfiles, xpc, xresult>>

\* processFile throws: the catch of executeConversion (lines 117-124)
ExecCatch ==
    /\ xpc = "loop"
    /\ xk <= Len(xfiles)
    /\ TransformThrowsOn(xfiles[xk].path, xfiles[xk].content, xoptions)
    /\ xresult' = [success |-> FALSE, files |-> <<>>, error |-> "parse"]
    /\ xpc' = "done"
    /\ UNCHANGED <<xoptions, xfiles, xk, xconverted>>

\* the loop is over: lines 97-116
ExecReturn ==
    /\ xpc = "loop"
    /\ xk > Len(xfiles)
    /\ xconverted' = IF NextToReact(xoptions) THEN xconverted \o TemplateFiles
                     ELSE xconverted
    /\ xresult' = [success |-> TRUE, files |-> xconverted', error |-> "none"]
    /\ xpc' = "done"
    /\ UNCHANGED <<xoptions, xfiles, xk>>

NextExec ==
    \/ ExecProcessFile /\ UNCHANGED notExec
    \/ ExecCatch /\ UNCHANGED notExec
    \/ ExecReturn /\ UNCHANGED notExec

SpecExec == InitExec /\ [][NextExec]_vars

(***************************************************************************)
(* analyzeCodeStructure (astTransformer.ts lines 757-917)                  *)
(*                                                                         *)
(* Statements are the records of N with names and import sources spelled   *)
(* as character sequences:                                                 *)
(*   ImportDeclaration         a = source                                  *)
(*   ExportNamedDeclaration    a = name, b = kind of declaration, c = body *)
(*   ExportDefaultDeclaration  a = name, b = kind of declaration, c = body *)
(*   VariableDeclaration       a = name, b = type of the initialiser,      *)
(*                             c = its body                                *)
(*   FunctionDeclaration       a = name, c = body                          *)
(* body: "block:jsx" (a block with a return of JSX), "expr:jsx" (a JSX     *)
(* expression body), "block:plain", "none", and "collision" (a block whose *)
(* declarations the parser accepts and the scope tracker of traverse       *)
(* rejects).                                                               *)
(***************************************************************************)
StrNextSlash == <<"n", "e", "x", "t", "/">>
StrUse == <<"u", "s", "e">>
StrHandler == <<"h", "a", "n", "d", "l", "e", "r">>

startsWith(s, prefix) ==
    Len(prefix) <= Len(s) /\ SubSeq(s, 1, Len(prefix)) = prefix

\* name[k] === name[k].toUpperCase()
IsUpperAt(name, k) == name[k] = UpperOf(name[k])

emptyFacts ==
    [imports |-> <<>>, exports |-> <<>>, components |-> <<>>, hooks |-> <<>>,
     hasNextImports |-> FALSE, hasApiRoutes |-> FALSE]

\* lines 773-781
VisitImportDeclaration(f, n) ==
    [f EXCEPT !.imports = Append(@, n.a),
              !.hasNextImports = @ \/ startsWith(n.a, StrNextSlash)]

SsrNames == { <<"g", "e", "t", "S", "e", "r", "v", "e", "r", "S", "i", "d", "e", "P", "r", "o", "p", "s">>,
             <<"g", "e", "t", "S", "t", "a", "t", "i", "c", "P", "r", "o", "p", "s">>,
             <<"g", "e", "t", "S", "t", "a", "t", "i", "c", "P", "a", "t", "h", "s">> }

\* lines 783-805
VisitExportNamedDeclaration(f, n) ==
    IF n.b = "FunctionDeclaration"
    THEN [f EXCEPT !.exports = Append(@, n.a),
                   !.hasApiRoutes = @ \/ n.a = StrHandler]
    ELSE IF n.b = "VariableDeclaration"
    THEN [f EXCEPT !.exports = Append(@, n.a),
                   !.hasApiRoutes = @ \/ n.a \in SsrNames]
    ELSE f

\* lines 807-818
VisitExportDefaultDeclaration(f, n) ==
    IF n.b = "FunctionDeclaration"
    THEN [f EXCEPT !.exports = Append(@, n.a),
                   !.hasApiRoutes = @ \/ n.a = StrHandler]
    ELSE IF n.b = "Identifier"
    THEN [f EXCEPT !.exports = Append(@, n.a)]
    ELSE f

\* lines 855-857 and 890-892
IsHookName(name) ==
    startsWith(name, StrUse) /\ Len(name) > 3 /\ IsUpperAt(name, 4)

\* lines 821-859, on the declarator name = init
VisitVariableDeclarator(f, name, init, body) ==
    LET isComponent ==
            /\ IsUpperAt(name, 1)
            /\ init \in {"ArrowFunctionExpression", "FunctionExpression"}
            /\ body \in {"block:jsx", "expr:jsx"}
    IN [f EXCEPT !.components = IF isComponent THEN Append(@, name) ELSE @,
                 !.hooks = IF IsHookName(name) THEN Append(@, name) ELSE @]

\* lines 862-894
VisitFunctionDeclaration(f, name, body) ==
    LET hasJsx == IsUpperAt(name, 1) /\ body = "block:jsx"
    IN [f EXCEPT !.components = IF hasJsx THEN Append(@, name) ELSE @,
                 !.hooks = IF IsHookName(name) THEN Append(@, name) ELSE @]

\* every visitor call the traversal makes for the top-level statement n:
\* the statement's own visitor, then the visitor of the declaration inside
AnalyzeStatement(f, n) ==
    CASE n.type = "ImportDeclaration" -> VisitImportDeclaration(f, n)
      [] n.type = "ExportNamedDeclaration" ->
           LET g == VisitExportNamedDeclaration(f, n)
           IN IF n.b = "FunctionDeclaration" THEN VisitFunctionDeclaration(g, n.a, n.c)
              ELSE IF n.b = "VariableDeclaration"
              THEN VisitVariableDeclarator(g, n.a, "ArrowFunctionExpression", n.c)
              ELSE g
      [] n.type = "ExportDefaultDeclaration" ->
           LET g == VisitExportDefaultDeclaration(f, n)
           IN IF n.b = "FunctionDeclaration" THEN VisitFunctionDeclaration(g, n.a, n.c)
              ELSE g
      [] n.type = "VariableDeclaration" -> VisitVariableDeclarator(f, n.a, n.b, n.c)
      [] n.type = "FunctionDeclaration" -> VisitFunctionDeclaration(f, n.a, n.c)
      [] OTHER -> f

\* a class with a decorator in front of it
Decorated(n) == n.type = "ClassDeclaration" /\ n.b = "decorated"

\* parser.parse of analyzeCodeStructure (lines 767-770): the plugins are
\* typescript and jsx only, so a decorator, which the parser of
\* transformWithAst accepts (decorators-legacy, line 322), is a syntax error
AnalysisParseThrows(text) ==
    \/ ParseThrows(text)
    \/ \E k \in 1..Len(text.nodes) : Decorated(text.nodes[k])

\* traverse throws while it sets up the scope of the statement's block
TraverseThrows(n) == n.c = "collision"

\* the catch (lines 906-916): a fresh default sheet, whatever was collected
AnalyzeCatchCollected(f) == f

AnalyzeCatch(f) == emptyFacts

SourceNextImage == <<"n", "e", "x", "t", "/", "i", "m", "a", "g", "e">>
SourceNext == <<"n", "e", "x", "t">>
SourceReact == <<"r", "e", "a", "c", "t">>
NameChart == <<"C", "h", "a", "r", "t">>
NameLowerChart == <<"c", "h", "a", "r", "t">>
NameUseData == <<"u", "s", "e", "D", "a", "t", "a">>
NameUser == <<"u", "s", "e", "r">>
NameUse == <<"u", "s", "e">>
NameUnderscoreX == <<"_", "x">>
NameHandler == <<"h", "a", "n", "d", "l", "e", "r">>
NameGetStaticProps == <<"g", "e", "t", "S", "t", "a", "t", "i", "c", "P", "r", "o", "p", "s">>
NameGetServerSideProps == <<"g", "e", "t", "S", "e", "r", "v", "e", "r", "S", "i", "d", "e", "P", "r", "o", "p", "s">>
NameGetStaticPaths == <<"g", "e", "t", "S", "t", "a", "t", "i", "c", "P", "a", "t", "h", "s">>

AnalyzePool ==
    {N("ImportDeclaration", s, "", "none", <<>>) : s \in {SourceNextImage, SourceNext, SourceReact}}
    \cup {N("ExportNamedDeclaration", n, k, "block:plain", <<>>) :
             n \in {NameHandler, NameGetStaticProps, NameGetServerSideProps},
             k \in {"FunctionDeclaration", "VariableDeclaration"}}
    \cup {N("ExportNamedDeclaration", NameChart, "ClassDeclaration", "none", <<>>),
          N("ExportNamedDeclaration", NameUseData, "FunctionDeclaration", "collision", <<>>),
          N("ExportDefaultDeclaration", NameChart, "FunctionDeclaration", "block:jsx", <<>>),
          N("ExportDefaultDeclaration", NameHandler, "FunctionDeclaration", "block:plain", <<>>),
          N("ExportDefaultDeclaration", NameLowerChart, "Identifier", "none", <<>>),
          N("VariableDeclaration", NameChart, "ArrowFunctionExpression", "expr:jsx", <<>>),
          N("VariableDeclaration", NameLowerChart, "ArrowFunctionExpression", "block:jsx", <<>>),
          N("VariableDeclaration", NameUnderscoreX, "FunctionExpression", "block:jsx", <<>>),
          N("VariableDeclaration", NameChart, "StringLiteral", "none", <<>>),
          N("VariableDeclaration", NameUseData, "ArrowFunctionExpression", "block:plain", <<>>),
          N("VariableDeclaration", NameUser, "CallExpression", "none", <<>>),
          N("FunctionDeclaration", NameChart, "", "block:jsx", <<>>),
          N("FunctionDeclaration", NameUse, "", "block:plain", <<>>),
          N("FunctionDeclaration", NameGetStaticPaths, "", "collision", <<>>) }

AnalyzeModules == UNION {[1..n -> AnalyzePool] : n \in 0..MaxStatements}

AnalyzeInit ==
    /\ \/ \E m \in AnalyzeModules : acode = Text(m, "canonical")
       \/ acode = Text(<<>>, "broken")
    /\ atree = <<>>
    /\ apos = 0
    /\ afacts = emptyFacts
    /\ apc = "parse"
    /\ aresult = <<>>

InitAnalyze == AnalyzeInit /\ FTIdle /\ AstIdle /\ RouterIdle /\ ExecIdle /\ PageIdle /\ ReducerIdle

\* parser.parse returns (lines 767-770)
AnalyzeParse ==
    /\ apc = "parse"
    /\ ~AnalysisParseThrows(acode)
    /\ atree' = ParseTree(acode)
    /\ apos' = 1
    /\ apc' = "traverse"
    /\ UNCHANGED <<acode, afacts, aresult>>

\* parser.parse throws: the catch
AnalyzeParseFails ==
    /\ apc = "parse"
    /\ AnalysisParseThrows(acode)
    /\ aresult' = AnalyzeCatch(afacts)
    /\ apc' = "done"
    /\ UNCHANGED <<acode, atree, apos, afacts>>

\* the traversal visits the next top-level statement
AnalyzeVisit ==
    /\ apc = "traverse"
    /\ apos <= Len(atree)
    /\ ~TraverseThrows(atree[apos])
    /\ afacts' = AnalyzeStatement(afacts, atree[apos])
    /\ apos' = apos + 1
    /\ UNCHANGED <<acode, atree, apc, aresult>>

\* traverse throws at the statement: the catch
AnalyzeVisitFails ==
    /\ apc = "traverse"
    /\ apos <= Len(atree)
    /\ TraverseThrows(atree[apos])
    /\ aresult' = AnalyzeCatch(afacts)
    /\ apc' = "done"
    /\ UNCHANGED <<acode, atree, apos, afacts>>

\* lines 897-904
AnalyzeReturn ==
    /\ apc = "traverse"
    /\ apos > Len(atree)
    /\ aresult' = afacts
    /\ apc' = "done"
    /\ UNCHANGED <<acode, atree, apos, afacts>>

NextAnalyze ==
    \/ AnalyzeParse /\ UNCHANGED notAnalyze
    \/ AnalyzeParseFails /\ UNCHANGED notAnalyze
    \/ AnalyzeVisit /\ UNCHANGED notAnalyze
    \/ AnalyzeVisitFails /\ UNCHANGED notAnalyze
    \/ AnalyzeReturn /\ UNCHANGED notAnalyze

SpecAnalyze == InitAnalyze /\ [][NextAnalyze]_vars

(***************************************************************************)
(* Claims on FileTransformer (specification Spec)                          *)
(***************************************************************************)
Returned == pc = "returned"

FatalRecorded == CountIn(errors, {FatalError}) > 0

StatesOf(S) == {f \in 1..totalFiles : task[f].st \in S}

\* C1: in every state of transformFiles (so also after each batch has been
\* collected and at the return, with or without a fault) modifiedFiles
\* equals the length of transformedFiles.
C1_ModifiedCountIsLength ==
    result.modifiedFiles = Len(result.transformedFiles)

C1_Witness ==
    /\ Returned
    /\ result.modifiedFiles >= 2
    /\ StatesOf({"skipped"}) # {}
    /\ StatesOf({"failed"}) # {}
    /\ StatesOf({"unmodified"}) # {}

\* C2: on an empty file list the returned transformationRate is 0.
C2_EmptyListRateIsZero ==
    (Returned /\ totalFiles = 0) => NumEq(result.transformationRate, 0)

\* C3: for a non-empty file list the returned transformationRate lies in
\* [0, 1], and modifiedFiles never exceeds the number of input files.
C3_RateInUnitInterval ==
    /\ result.modifiedFiles <= totalFiles
    /\ (Returned /\ totalFiles > 0) =>
          /\ NumLeq(0, result.transformationRate)
          /\ NumGeq(1, result.transformationRate)

C3_Witness ==
    /\ Returned
    /\ totalFiles > batchSize
    /\ 0 < result.modifiedFiles
    /\ result.modifiedFiles < totalFiles
    /\ result.transformationRate = Divide(result.modifiedFiles, totalFiles)
    /\ StatesOf({"failed"}) # {}

\* C4: when the read or the transform of a file throws, transformFiles
\* still returns with every file settled, every other modified file is in
\* transformedFiles, the failing file is not, and the collector holds
\* exactly one FILE_TRANSFORM_ERROR naming it.
C4_FailureIsIsolated ==
    (Returned /\ ~FatalRecorded) =>
        /\ \A f \in 1..totalFiles : Settled(task[f].st)
        /\ \A f \in StatesOf({"failed"}) :
              /\ files[f] \notin Range(result.transformedFiles)
              /\ CountIn(errors, {FileError(files[f])}) = 1
        /\ \A g \in StatesOf({"modified"}) :
              CountIn(result.transformedFiles, {files[g]}) = 1

C4_Witness ==
    /\ Returned
    /\ ~FatalRecorded
    /\ Cardinality(StatesOf({"failed"})) = 1
    /\ \E f \in StatesOf({"failed"}), g, h \in StatesOf({"modified"}) :
          /\ f <= batchSize
          /\ g <= batchSize
          /\ f < g
          /\ h > batchSize

\* C5: a file whose lower-cased name ends with an extension of the skip
\* list is never read, never transformed, never in transformedFiles and
\* never the subject of an error, yet it counts in the rate's denominator.
IsAssetName(name) ==
    \E ext \in skipExtensions : endsWith(toLowerCase(name), ext)

C5_AssetsSkippedButCounted ==
    /\ \A f \in 1..totalFiles :
          IsAssetName(files[f]) =>
              /\ f \notin reads
              /\ f \notin transforms
              /\ task[f].st \in {"pending", "skipped"}
              /\ files[f] \notin Range(result.transformedFiles)
              /\ \A k \in 1..Len(errors) : errors[k].file # files[f]
    /\ (Returned /\ ~FatalRecorded) =>
          result.transformationRate.den = Len(files)

C5_Witness ==
    /\ Returned
    /\ ~FatalRecorded
    /\ \E f, g \in 1..totalFiles :
          /\ f # g
          /\ IsAssetName(files[f])
          /\ files[f] # toLowerCase(files[f])
          /\ IsAssetName(files[g])
          /\ task[f].st = "skipped"
          /\ task[g].st = "skipped"
    /\ result.modifiedFiles > 0
    /\ result.transformationRate.den = totalFiles

\* C6: a fault while a batch is collected stops the run: no file of a later
\* batch is started, exactly one critical FILE_TRANSFORM_FAILED error is
\* recorded, the caller gets the result, and a result that does not cover
\* every file is never returned without that error.
C6_FatalFaultAbortsAndSurfaces ==
    /\ CountIn(errors, {FatalError}) <= 1
    /\ FatalRecorded =>
          /\ Returned
          /\ \A f \in 1..totalFiles : f > i + batchSize => task[f].st = "pending"
    /\ (Returned /\ StatesOf({"pending"}) # {}) => FatalRecorded
    /\ (Returned /\ result.details # details) => FatalRecorded

C6_Witness ==
    /\ Returned
    /\ CountIn(errors, {FatalError}) = 1
    /\ errors[Len(errors)].severity = "critical"
    /\ StatesOf({"pending"}) # {}
    /\ Len(result.transformedFiles) >= 2

(***************************************************************************)
(* Claims on transformWithAst (specification SpecAst)                      *)
(***************************************************************************)
Done == tpc = "done"

NodesOf(tree, type) == {k \in 1..Len(tree) : tree[k].type = type}

HasAttr(n, name) ==
    \E k \in 1..Len(n.attrs) : n.attrs[k].kind = "JSXAttribute" /\ n.attrs[k].name = name

\* no rewrite rule predicate matches statement n
IsPlain(n) ==
    /\ n.type = "ImportDeclaration" =>
          n.a \notin {"next/image", "next/link", "next/head", "next/router", "next/dynamic"}
    /\ n.type = "VariableDeclaration" => n.b \in {"literal"}
    /\ n.type = "ExportNamedDeclaration" => n.a \notin DataFetchingNames
    /\ n.type = "JSXElement" => n.a \notin {"Image", "Link", "Head", "Script"}
    /\ n.type \in {"MemberExpression", "CallExpression"} =>
          n.a # "router" /\ n.b # "useRouter"

\* C7: for a source text in which no rule predicate matches, the returned
\* code is identical to the input and changes is empty.
C7_NoOpReturnsInput ==
    (Done /\ \A k \in 1..Len(src.nodes) : IsPlain(src.nodes[k])) =>
        /\ out.code = src
        /\ out.changes = <<>>

\* C8: every firing of a rewrite rule on one node appends exactly one entry
\* in total, to changes or to warnings.
C8_OneEntryPerFiring ==
    [][(tpc = "traverse" /\ tpc' = "traverse" /\ fired' # "none") =>
          Len(changes') + Len(warnings') = Len(changes) + Len(warnings) + 1]_vars

\* C9: for an Image element carrying a priority attribute, the returned
\* code has the attribute removed and the returned warnings hold exactly
\* one warning, which names priority.
HasImagePriority(tree) ==
    \E k \in NodesOf(tree, "JSXElement") :
        tree[k].a = "Image" /\ HasAttr(tree[k], "priority")

C9_ImagePriorityDroppedOneWarning ==
    (Done /\ src.form # "broken" /\ HasImagePriority(src.nodes)) =>
        /\ ~HasImagePriority(out.code.nodes)
        /\ out.warnings = <<Warning("Image", "priority")>>

\* C10: when the traversal enters a named export (function declaration or
\* first variable binding) called getServerSideProps, getStaticProps or
\* getStaticPaths, the export is replaced by the generated export named by
\* the fixed mapping and wrapping useQuery, and exactly one change entry is
\* pushed; entering any other export, the generated one included, changes
\* nothing; so changes holds one entry per export replaced so far.
C10_Hook(name) ==
    CASE name = "getServerSideProps" -> "useFetchData"
      [] name = "getStaticProps" -> "useStaticData"
      [] name = "getStaticPaths" -> "useAvailablePaths"

C10_Matches(n) ==
    /\ n.type = "ExportNamedDeclaration"
    /\ n.b \in {"FunctionDeclaration", "VariableDeclaration"}
    /\ n.a \in {"getServerSideProps", "getStaticProps", "getStaticPaths"}

C10_Generated(n) ==
    /\ n.type = "ExportNamedDeclaration"
    /\ n.b = "FunctionDeclaration"
    /\ n.c = "useQuery"
    /\ n.a \in {"useFetchData", "useStaticData", "useAvailablePaths"}

C10_EnterExport ==
    (tpc = "traverse" /\ pos <= Len(ast) /\ phase = "enter"
        /\ ast[pos].type = "ExportNamedDeclaration" /\ tpc' = "traverse") =>
       IF C10_Matches(ast[pos])
       THEN /\ Len(ast') = Len(ast)
            /\ C10_Generated(ast'[pos])
            /\ ast'[pos].a = C10_Hook(ast[pos].a)
            /\ changes' = Append(changes,
                  Change("dataFetching", ast[pos].a, C10_Hook(ast[pos].a)))
            /\ warnings' = warnings
       ELSE /\ ast' = ast
            /\ changes' = changes
            /\ warnings' = warnings

C10_Counted ==
    tpc = "traverse" =>
        /\ \A k \in 1..Len(ast) : k < pos => ~C10_Matches(ast[k])
        /\ Cardinality({k \in 1..Len(changes) : changes[k].rule = "dataFetching"})
              = Cardinality({k \in 1..Len(ast) : C10_Generated(ast[k])})

C10_DataFetchingRule == [][C10_EnterExport]_vars /\ []C10_Counted

C10_Witness ==
    /\ Done
    /\ Len(src.nodes) = 2
    /\ C10_Matches(src.nodes[1])
    /\ src.nodes[1].b = "VariableDeclaration"
    /\ src.nodes[2] = N("ExportNamedDeclaration", "getStaticPaths", "FunctionDeclaration", "body", <<>>)
    /\ C10_Generated(out.code.nodes[1])
    /\ out.code.nodes[2].a = "useAvailablePaths"
    /\ Len(out.changes) = 2


(***************************************************************************)
(* Claims about the batching of transformFiles                             *)
(***************************************************************************)
\* the number of the batch a file index falls into, counting from 0
BatchNo(f) == (f - 1) \div 5

RECURSIVE Flatten(_)
Flatten(ss) == IF ss = <<>> THEN <<>> ELSE Head(ss) \o Flatten(Tail(ss))

Collected(g) ==
    /\ Settled(task[g].st)
    /\ task[g].st = "modified" => files[g] \in Range(result.transformedFiles)

\* C18: a file task has left "pending" (its read or transform has begun)
\* only if every file task of every earlier batch has settled and the
\* modified ones of those batches are already in the aggregated result.
C18_BatchesRunSequentially ==
    \A f \in 1..totalFiles :
        task[f].st # "pending" =>
            \A g \in 1..totalFiles : BatchNo(g) < BatchNo(f) => Collected(g)

C18_Witness ==
    /\ pc = "await"
    /\ i = 5
    /\ totalFiles > 5
    /\ task[6].st = "reading"
    /\ \E g \in 1..5 : task[g].st = "modified"
    /\ \E g \in 1..5 : task[g].st = "failed"

\* C19: the slices handed to transformFile are consecutive, start at the
\* first file, never repeat a file, hold exactly 5 files each except the
\* last one, which holds 1 to 5; after an unfaulted run they cover every
\* input file; and at most 5 file tasks are unsettled at any time.
C19_PartitionInFives ==
    LET flat == Flatten(batches)
    IN /\ \A k \in 1..Len(flat) : flat[k] = k
       /\ Len(flat) <= totalFiles
       /\ \A b \in 1..Len(batches) :
             /\ Len(batches[b]) \in 1..5
             /\ b < Len(batches) => Len(batches[b]) = 5
       /\ \A f \in 1..totalFiles :
             task[f].st # "pending" <=> f \in Range(flat)
       /\ (Returned /\ ~FatalRecorded) => Len(flat) = totalFiles
       /\ Cardinality(StatesOf({"reading"})) <= 5

C19_Witness ==
    /\ Returned
    /\ ~FatalRecorded
    /\ totalFiles = 6
    /\ batches = << <<1, 2, 3, 4, 5>>, <<6>> >>

\* C20: every step that appends to the error collector or to the result
\* aggregator leaves no file task pending on its read.
C20_SharedStateWrittenAfterBatchSettles ==
    [][(errors' # errors \/ result' # result \/ details' # details)
          => \A f \in 1..totalFiles : task'[f].st # "reading"]_vars


(***************************************************************************)
(* Claims on the catch of transformWithAst (specification SpecAst)         *)
(***************************************************************************)
Faults ==
    \/ tpc = "parse" /\ ParseThrows(src)
    \/ tpc = "traverse" /\ pos <= Len(ast) /\ VisitOutcome.throws

IsCaughtResult(o, source) ==
    /\ o.code = source
    /\ o.changes = <<>>
    /\ Len(o.warnings) > 0
    /\ o.warnings[Len(o.warnings)] = ErrorWarning

\* C12: a step in which the parser or a visitor throws ends the call with
\* a result (nothing propagates) whose code is the source text as given,
\* whose changes list is empty whatever was recorded before, and whose
\* warnings end with the 'AST transformation error' entry; the warnings
\* pushed before the fault stay in front of it.
C12_FaultReturnsSource ==
    [][Faults =>
          /\ tpc' = "done"
          /\ IsCaughtResult(out', src)
          /\ SubSeq(out'.warnings, 1, Len(out'.warnings) - 1) = warnings]_vars

C12_Witness ==
    /\ Done
    /\ src.form = "loose"
    /\ Len(src.nodes) = 2
    /\ src.nodes[1].a = "next/image"
    /\ src.nodes[2] = N("ImportDeclaration", "next/dynamic", "default", "", <<>>)
    /\ changes # <<>>
    /\ IsCaughtResult(out, src)


(***************************************************************************)
(* Claims on the router rule (specification SpecRouter)                    *)
(***************************************************************************)
RouterMatches(n) ==
    n.a = "router" /\ n.b \in {"push", "query", "pathname", "asPath"}

\* the target form of the fixed mapping for the matched access n
RouterTarget(n) ==
    CASE n.b = "push" ->
           IF n.type = "CallExpression"
           THEN N("CallExpression", "", "navigate", n.c, <<>>)
           ELSE N("Identifier", "", "navigate", "", <<>>)
      [] n.b = "query" ->
           IF n.type = "CallExpression"
           THEN N("CallExpression", "", "params", n.c, <<>>)
           ELSE N("Identifier", "", "params", "", <<>>)
      [] n.b \in {"pathname", "asPath"} ->
           N(n.type, "location", "pathname", n.c, <<>>)

\* C11: once the visitor has run on a member access (and on whatever it
\* queued), a matched access router.push / query / pathname / asPath stands
\* replaced by its target form with exactly one change entry, and any other
\* access is as it was with no change entry; for each of the four
\* implementations of the rule.
C11_RouterRuleProducesTarget ==
    rpc \in {"print", "done"} =>
        IF RouterMatches(rin)
        THEN rnode = RouterTarget(rin) /\ Len(rchanges) = 1
        ELSE rnode = rin /\ rchanges = <<>>

\* C13: whatever the router rule leaves in the tree prints to a text that
\* parses again.
C13_RouterOutputParses == rpc = "done" => ~ParseThrows(rout)


(***************************************************************************)
(* Claims on ConversionExecutor (specification SpecExec)                   *)
(***************************************************************************)
\* the page modules of the runs (app-shell files are C15's subject) and
\* the destination the naming rule gives each
C14_Pages ==
    {PathPagesIndex, PathPagesBlogIndex, PathPagesAbout, PathPagesHome,
     PathSrcPagesHome, PathSrcPagesAbout}

C14_Destination(p) ==
    CASE p = <<"p", "a", "g", "e", "s", "/", "i", "n", "d", "e", "x", ".", "t", "s", "x">> ->
           <<"s", "r", "c", "/", "p", "a", "g", "e", "s", "/", "H", "o", "m", "e", ".", "t", "s", "x">>
      [] p = <<"p", "a", "g", "e", "s", "/", "b", "l", "o", "g", "/", "i", "n", "d", "e", "x", ".", "t", "s", "x">> ->
           <<"s", "r", "c", "/", "p", "a", "g", "e", "s", "/", "H", "o", "m", "e", ".", "t", "s", "x">>
      [] p = <<"p", "a", "g", "e", "s", "/", "a", "b", "o", "u", "t", ".", "j", "s">> ->
           <<"s", "r", "c", "/", "p", "a", "g", "e", "s", "/", "A", "b", "o", "u", "t", ".", "t", "s", "x">>
      [] p = <<"p", "a", "g", "e", "s", "/", "h", "o", "m", "e", ".", "t", "s", "x">> ->
           <<"s", "r", "c", "/", "p", "a", "g", "e", "s", "/", "H", "o", "m", "e", ".", "t", "s", "x">>
      [] p = <<"s", "r", "c", "/", "p", "a", "g", "e", "s", "/", "H", "o", "m", "e", ".", "t", "s", "x">> ->
           <<"s", "r", "c", "/", "p", "a", "g", "e", "s", "/", "H", "o", "m", "e", ".", "t", "s", "x">>
      [] p = <<"s", "r", "c", "/", "p", "a", "g", "e", "s", "/", "A", "b", "o", "u", "t", ".", "t", "s", "x">> ->
           <<"s", "r", "c", "/", "p", "a", "g", "e", "s", "/", "A", "b", "o", "u", "t", ".", "t", "s", "x">>

\* C14: converting nextjs -> react, every converted page module stands in
\* convertedFiles under the destination its path alone determines:
\* src/pages/Home.tsx for the base name index, src/pages/<Base name with
\* its first character upper-cased>.tsx otherwise, whatever its content,
\* its position in the input and the other files.
C14_PageDestination ==
    NextToReact(xoptions) =>
        \A k \in 1..Len(xconverted) :
            xconverted[k].originalPath \in C14_Pages =>
                xconverted[k].path = C14_Destination(xconverted[k].originalPath)

C14_Witness ==
    /\ xpc = "done"
    /\ NextToReact(xoptions)
    /\ xresult.success
    /\ Len(xfiles) = 2
    /\ xfiles[1].path = PathPagesAbout
    /\ xfiles[2].path = PathPagesBlogIndex
    /\ xresult.files[1].path = <<"s", "r", "c", "/", "p", "a", "g", "e", "s", "/", "A", "b", "o", "u", "t", ".", "t", "s", "x">>
    /\ xresult.files[2].path = <<"s", "r", "c", "/", "p", "a", "g", "e", "s", "/", "H", "o", "m", "e", ".", "t", "s", "x">>

IsAppShell(path) ==
    includes(FileNameOf(path), StrApp) \/ includes(FileNameOf(path), StrDocument)

\* C15: converting nextjs -> react, every converted file whose name contains
\* _app or _document went through the app-shell conversion and has the
\* destination src/App.tsx.
C15_AppShellToRoot ==
    NextToReact(xoptions) =>
        \A k \in 1..Len(xconverted) :
            (xconverted[k].content.by # "cicd" /\ IsAppShell(xconverted[k].originalPath)) =>
                /\ xconverted[k].path = <<"s", "r", "c", "/", "A", "p", "p", ".", "t", "s", "x">>
                /\ xconverted[k].content.by = "app"

\* C17: executeConversion returns success, and every input file that is
\* not filtered out (node_modules, non-JS/TS) is in the returned files
\* list, also when the transformation of some file throws.
C17_FailureKeptAtFileBoundary ==
    xpc = "done" =>
        /\ xresult.success
        /\ \A k \in 1..Len(xfiles) :
              ~ReturnsNull(xfiles[k].path) =>
                  \E j \in 1..Len(xresult.files) :
                      xresult.files[j].originalPath = xfiles[k].path


(***************************************************************************)
(* Claims on analyzeCodeStructure (specification SpecAnalyze)              *)
(***************************************************************************)
AnalyzeFaults ==
    \/ apc = "parse" /\ ParseThrows(acode)
    \/ apc = "traverse" /\ apos <= Len(atree) /\ atree[apos].c = "collision"

\* C16: a step in which the parser or the traversal throws ends the call
\* with a returned fact sheet (nothing propagates) whose four lists are
\* empty and whose two flags are false, whatever was collected before; and
\* every returned value is a fact sheet.
C16_FaultReturnsEmptySheet ==
    [][/\ AnalyzeFaults =>
             /\ apc' = "done"
             /\ aresult'.imports = <<>> /\ aresult'.exports = <<>>
             /\ aresult'.components = <<>> /\ aresult'.hooks = <<>>
             /\ aresult'.hasNextImports = FALSE /\ aresult'.hasApiRoutes = FALSE
       /\ apc' = "done" =>
             DOMAIN aresult' = {"imports", "exports", "components", "hooks",
                                "hasNextImports", "hasApiRoutes"}]_vars

C16_Witness ==
    /\ apc = "done"
    /\ Len(atree) = 2
    /\ atree[1].type = "ImportDeclaration"
    /\ atree[2].c = "collision"
    /\ afacts.imports # <<>>
    /\ afacts.hasNextImports
    /\ aresult.imports = <<>>
    /\ ~aresult.hasNextImports


(***************************************************************************)
(* Claims on the order and shape of transformFiles' result (Spec)          *)
(***************************************************************************)
\* file names are distinct: the index of the input file called name
IndexOf(name) == CHOOSE f \in 1..totalFiles : files[f] = name

\* C21: in transformedFiles a file of an earlier batch stands before every
\* file of a later batch, and the k-th details entry is about the k-th
\* file of transformedFiles.
C21_OrderAcrossBatches ==
    LET tf == result.transformedFiles
    IN /\ \A p, q \in 1..Len(tf) :
             BatchNo(IndexOf(tf[p])) < BatchNo(IndexOf(tf[q])) => p < q
       /\ Len(details) <= Len(tf)
       /\ \A k \in 1..Len(details) : details[k].file = tf[k]
       /\ \A k \in 1..Len(result.details) : result.details[k].file = tf[k]

C21_Witness ==
    /\ Returned
    /\ totalFiles = 6
    /\ result.transformedFiles = <<files[1], files[6]>>
    /\ Len(result.details) = 2
    /\ result.details[2].file = files[6]

Terminal == {"modified", "unmodified", "skipped", "failed"}

C22_Steps ==
    \A f \in 1..totalFiles :
        /\ task[f].st \in Terminal => task'[f] = task[f]
        /\ (task[f].st # "skipped" /\ task'[f].st = "skipped") => task[f].st = "pending"
        /\ task'[f].st \in {"modified", "unmodified"} =>
              stages'[f] = <<"Parsed", "Analyzed", "Rewritten">>

C22_States ==
    \A f \in 1..totalFiles :
        /\ task[f].st \in Terminal \cup {"pending", "reading"}
        /\ IsAssetName(files[f]) =>
              /\ task[f].st \in {"pending", "skipped"}
              /\ f \notin reads /\ f \notin transforms /\ stages[f] = <<>>

\* the run ends, and at its end no file is left reading
C22_Ended == Returned /\ \A f \in 1..totalFiles : task[f].st # "reading"

C22_Settles == <>C22_Ended

C28_SubsequenceOfInput ==
    LET tf == result.transformedFiles
    IN /\ \A k \in 1..Len(tf) : \E f \in 1..totalFiles : files[f] = tf[k]
       /\ \A p, q \in 1..Len(tf) : p < q => IndexOf(tf[p]) < IndexOf(tf[q])
       /\ (Returned /\ ~FatalRecorded) =>
             {IndexOf(tf[k]) : k \in 1..Len(tf)} = StatesOf({"modified"})

C28_Witness ==
    /\ pc = "loop"
    /\ i = 5
    /\ \E a, b \in 1..Len(readOrder) :
          /\ a < b
          /\ readOrder[a] > readOrder[b]
          /\ BatchNo(readOrder[a]) = BatchNo(readOrder[b])
          /\ task[readOrder[a]].st = "modified"
          /\ task[readOrder[b]].st = "modified"
          /\ result.transformedFiles = <<files[readOrder[b]], files[readOrder[a]]>>

\* C29: the returned result has one details entry per transformedFiles
\* entry, in the same order, its rate is modifiedFiles / totalFiles, and
\* the second implementation returns the same result.
C29_ReturnedResultConsistent ==
    Returned =>
        /\ Len(result.details) = Len(result.transformedFiles)
        /\ \A k \in 1..Len(result.details) :
              result.details[k].file = result.transformedFiles[k]
        /\ result.transformationRate = Divide(result.modifiedFiles, totalFiles)
        /\ helperResult = result


(***************************************************************************)
(* Claims on destination paths of ConversionExecutor (SpecExec)            *)
(***************************************************************************)
\* C25: the conversion of inputs that are all convertible returns success,
\* and the returned files hold at most one entry per destination path: no
\* two entries that come from distinct source files have the same path.
C25_OneEntryPerDestination ==
    xpc = "done" =>
        /\ (\A k \in 1..Len(xfiles) : xfiles[k].content = "ok") => xresult.success
        /\ \A j, k \in 1..Len(xresult.files) :
              (xresult.files[j].originalPath # xresult.files[k].originalPath) =>
                  xresult.files[j].path # xresult.files[k].path

\* the page paths pages/<name>.tsx of the runs
C30_Pages == {PathPagesIndex, PathPagesBlogIndex, PathPagesHome}

\* C30: the destination a page pages/<name>.tsx got in a nextjs -> react
\* conversion is mapped back to the page's own path by the react -> nextjs
\* conversion.
C30_RoundTrip ==
    NextToReact(xoptions) =>
        \A k \in 1..Len(xconverted) :
            xconverted[k].originalPath \in C30_Pages =>
                NewPath(xconverted[k].path, Options("react", "nextjs"))
                    = xconverted[k].originalPath


(***************************************************************************)
(* Claims on the fact sheet of analyzeCodeStructure (SpecAnalyze)          *)
(***************************************************************************)
\* the data-fetching entry-point names
C26_EntryPoints == SsrNames

\* statement k is a top-level named export of a data-fetching entry point,
\* as a function declaration or as a variable binding
C26_IsEntryPointExport(k) ==
    /\ atree[k].type = "ExportNamedDeclaration"
    /\ atree[k].b \in {"FunctionDeclaration", "VariableDeclaration"}
    /\ atree[k].a \in C26_EntryPoints

\* C26: when analyzeCodeStructure returns from a completed traversal of a
\* module that has a top-level named export of getServerSideProps,
\* getStaticProps or getStaticPaths (function declaration or variable
\* binding), hasApiRoutes of the returned fact sheet is true.
C26_DataFetchingDetected ==
    (apc = "done" /\ apos > Len(atree)) =>
        ((\E k \in 1..Len(atree) : C26_IsEntryPointExport(k)) =>
            aresult.hasApiRoutes)


(***************************************************************************)
(* conversionReducer (src/src/context/ConversionContext.tsx)               *)
(***************************************************************************)
\* the longest logs array the runs build
MaxLogs == 2

ConversionOptions(router, api, rest) ==
    [useReactRouter |-> router, convertApiRoutes |-> api,
     transformDataFetching |-> rest, replaceComponents |-> rest,
     updateDependencies |-> rest, preserveTypeScript |-> rest,
     handleMiddleware |-> rest]

emptyConversionResult == [success |-> FALSE, errors |-> <<>>, warnings |-> <<>>]

\* lines 30-49
initialConversionState ==
    [isConverting |-> FALSE,
     progress |-> 0,
     currentStep |-> 1,
     conversionOptions |-> ConversionOptions(TRUE, TRUE, TRUE),
     logs |-> <<>>,
     result |-> emptyConversionResult]

Log(message, type) == [message |-> message, type |-> type]

\* { ...state.result, ...action.result }
SpreadResult(r, partial) ==
    [k \in DOMAIN r \cup DOMAIN partial |->
        IF k \in DOMAIN partial THEN partial[k] ELSE r[k]]

conversionReducerResetOnResult(s, a) ==
    CASE a.type = "START_CONVERSION" ->
           [s EXCEPT !.isConverting = TRUE,
                     !.progress = 0,
                     !.conversionOptions = a.options,
                     !.logs = <<Log("Starting conversion...", "info")>>,
                     !.result = emptyConversionResult]
      [] a.type = "SET_PROGRESS" -> [s EXCEPT !.progress = a.progress]
      [] a.type = "SET_STEP" -> [s EXCEPT !.currentStep = a.step]
      [] a.type = "ADD_LOG" -> [s EXCEPT !.logs = Append(@, a.log)]
      [] a.type = "SET_RESULT" ->
           [s EXCEPT !.isConverting = FALSE,
                     !.conversionOptions = initialConversionState.conversionOptions,
                     !.result = SpreadResult(@, a.result)]
      [] a.type = "RESET" -> initialConversionState
      [] OTHER -> s

\* lines 62-99
conversionReducer(s, a) ==
    CASE a.type = "START_CONVERSION" ->
           [s EXCEPT !.isConverting = TRUE,
                     !.progress = 0,
                     !.conversionOptions = a.options,
                     !.logs = <<Log("Starting conversion...", "info")>>,
                     !.result = emptyConversionResult]
      [] a.type = "SET_PROGRESS" -> [s EXCEPT !.progress = a.progress]
      [] a.type = "SET_STEP" -> [s EXCEPT !.currentStep = a.step]
      [] a.type = "ADD_LOG" -> [s EXCEPT !.logs = Append(@, a.log)]
      [] a.type = "SET_RESULT" ->
           [s EXCEPT !.isConverting = FALSE,
                     !.result = SpreadResult(@, a.result)]
      [] a.type = "RESET" -> initialConversionState
      [] OTHER -> s

\* The payloads the components dispatch.
OptionsPool ==
    {ConversionOptions(TRUE, TRUE, TRUE), ConversionOptions(FALSE, TRUE, TRUE),
     ConversionOptions(FALSE, FALSE, FALSE)}

LogPool == {Log("Converting files", "info"), Log("Conversion failed", "error")}

PartialResults ==
    {[success |-> TRUE],
     [success |-> FALSE, errors |-> <<"Conversion failed">>],
     [warnings |-> <<"skipped">>]}

\* useReducer(conversionReducer, initialConversionState) (line 103)
ReducerInit ==
    /\ state = initialConversionState
    /\ action = [type |-> "INIT"]
    /\ started = initialConversionState.conversionOptions

InitReducer ==
    ReducerInit /\ FTIdle /\ AstIdle /\ RouterIdle /\ ExecIdle /\ AnalyzeIdle /\ PageIdle

\* dispatch(a): React stores what the reducer returns
Dispatch(a) ==
    /\ state' = conversionReducer(state, a)
    /\ action' = a

DispatchStartConversion ==
    \E o \in OptionsPool :
        /\ Dispatch([type |-> "START_CONVERSION", options |-> o])
        /\ started' = o

DispatchSetProgress ==
    \E p \in {0, 50, 100} :
        /\ Dispatch([type |-> "SET_PROGRESS", progress |-> p])
        /\ UNCHANGED started

DispatchSetStep ==
    \E n \in {1, 2} :
        /\ Dispatch([type |-> "SET_STEP", step |-> n])
        /\ UNCHANGED started

DispatchAddLog ==
    \E l \in LogPool :
        /\ Len(state.logs) < MaxLogs
        /\ Dispatch([type |-> "ADD_LOG", log |-> l])
        /\ UNCHANGED started

DispatchSetResult ==
    \E r \in PartialResults :
        /\ Dispatch([type |-> "SET_RESULT", result |-> r])
        /\ UNCHANGED started

DispatchReset ==
    /\ Dispatch([type |-> "RESET"])
    /\ started' = initialConversionState.conversionOptions

NextReducer ==
    \/ DispatchStartConversion /\ UNCHANGED notReducer
    \/ DispatchSetProgress /\ UNCHANGED notReducer
    \/ DispatchSetStep /\ UNCHANGED notReducer
    \/ DispatchAddLog /\ UNCHANGED notReducer
    \/ DispatchSetResult /\ UNCHANGED notReducer
    \/ DispatchReset /\ UNCHANGED notReducer

SpecReducer == InitReducer /\ [][NextReducer]_vars

\* what a dispatch does to conversionOptions
C27_Step ==
    /\ action'.type \in {"SET_PROGRESS", "SET_STEP", "ADD_LOG", "SET_RESULT"} =>
           state'.conversionOptions = state.conversionOptions
    /\ action'.type = "START_CONVERSION" =>
           state'.conversionOptions = action'.options
    /\ action'.type = "RESET" =>
           state'.conversionOptions = initialConversionState.conversionOptions

\* the options of the state are the ones supplied at the start of the run
C27_AsSupplied == state.conversionOptions = started

\* C27: conversionOptions changes only on START_CONVERSION (to the options
\* supplied) and on RESET (to the defaults); SET_PROGRESS, SET_STEP, ADD_LOG
\* and SET_RESULT leave it unchanged, so from a START_CONVERSION up to and
\* after the SET_RESULT that ends the run the options are the ones supplied.
C27_OptionsSnapshot == [][C27_Step]_vars /\ []C27_AsSupplied

\* a run started with options other than the defaults, with progress and a
\* log entry in between, was ended by SET_RESULT
C27_Witness ==
    /\ action.type = "SET_RESULT"
    /\ ~state.isConverting
    /\ started # initialConversionState.conversionOptions
    /\ state.conversionOptions = started
    /\ Len(state.logs) >= 2
    /\ state.progress # 0
    /\ state.result.success


(***************************************************************************)
(* Claims on the order of the rules of transformWithAst (SpecAst)          *)
(***************************************************************************)
\* the category of the rule that recorded a change: import retargeting,
\* markup-element retargeting, member/call (routing) retargeting, export
\* (data-fetching) retargeting; the dynamic() rule belongs to none of them
C23_Categories == <<{"import"}, {"jsx"}, {"router", "call"}, {"dataFetching"}>>

C23_Categorised(ch) == \E c \in 1..Len(C23_Categories) : ch.rule \in C23_Categories[c]

C23_Category(ch) == CHOOSE c \in 1..Len(C23_Categories) : ch.rule \in C23_Categories[c]

\* C23: the changes list is grouped by category in the fixed order: no entry
\* of a later category stands before an entry of an earlier category.
C23_GroupedByCategory ==
    \A j, k \in 1..Len(changes) :
        (j < k /\ C23_Categorised(changes[j]) /\ C23_Categorised(changes[k])) =>
            C23_Category(changes[j]) <= C23_Category(changes[k])


(***************************************************************************)
(* transformPageComponent (src/src/services/astTransformer.ts 922-987):    *)
(* transformWithAst, then analyzeCodeStructure of its output, then the     *)
(* import injection                                                        *)
(***************************************************************************)
\* codeStructure.imports: the sources of the import declarations, or the
\* empty list of the catch when the analysis fails (lines 773-776, 906-916)
ImportSources(nodes) ==
    LET IsImport(n) == n.type = "ImportDeclaration"
        found == SelectSeq(nodes, IsImport)
    IN [k \in 1..Len(found) |-> found[k].a]

AnalyzedImports(text) ==
    IF AnalysisParseThrows(text) THEN <<>> ELSE ImportSources(text.nodes)

\* change.includes(phrase), on the messages of lines 375-747
Mentions(ch, phrase) ==
    CASE phrase = "React Query" -> ch.rule = "dataFetching"
      [] phrase = "React Router" -> ch.rule = "jsx" /\ ch.x = "Link"
      [] phrase = "@unpic/react" ->
           \/ ch.rule = "import" /\ ch.y = "@unpic/react"
           \/ ch.rule = "jsx" /\ ch.x = "Image"
      [] phrase = "react-helmet-async" ->
           \/ ch.rule = "import" /\ ch.y = "react-helmet-async"
           \/ ch.rule = "jsx" /\ ch.x = "Head"
      [] phrase = "React lazy" -> ch.rule = "import" /\ ch.x = "next/dynamic"
      [] OTHER -> FALSE

\* imp.includes('lazy')
IncludesLazy(imp) == imp \in {"react-lazy-load"}

\* the five tests of lines 936-975: the phrase looked for in changes, the
\* module of the import pushed, and its specifiers
Injection(phrase, module, specifiers) ==
    [phrase |-> phrase, module |-> module, specifiers |-> specifiers]

Injections ==
    << Injection("React Query", "@tanstack/react-query", "named:useQuery"),
       Injection("React Router", "react-router-dom", "named:useNavigate,useParams,useLocation"),
       Injection("@unpic/react", "@unpic/react", "named:Image"),
       Injection("react-helmet-async", "react-helmet-async", "named:Helmet"),
       Injection("React lazy", "react", "named:lazy,Suspense") >>

\* the second operand of each test
AlreadyImported(inj, imports) ==
    IF inj.phrase = "React lazy"
    THEN \E k \in 1..Len(imports) : imports[k] = "react" /\ IncludesLazy(imports[k])
    ELSE \E k \in 1..Len(imports) : imports[k] = inj.module

addedImports(ch, imports) ==
    LET Needed(inj) ==
            /\ \E k \in 1..Len(ch) : Mentions(ch[k], inj.phrase)
            /\ ~AlreadyImported(inj, imports)
        pushed == SelectSeq(Injections, Needed)
    IN [k \in 1..Len(pushed) |->
           N("ImportDeclaration", pushed[k].module, pushed[k].specifiers, "", <<>>)]

\* lines 977-987: the imports are put in front of the transformed code
transformPageComponent(r) ==
    LET added == addedImports(r.changes, AnalyzedImports(r.code))
    IN [code |-> Text(added \o r.code.nodes, r.code.form),
        warnings |-> r.warnings,
        changes |-> r.changes,
        addedImports |-> added]

\* The statements the page modules are built from.
PagePool ==
    { N("ImportDeclaration", "next/image", "default", "", <<>>),
      N("ImportDeclaration", "next/link", "default", "", <<>>),
      N("ImportDeclaration", "next/head", "default", "", <<>>),
      N("ImportDeclaration", "next/dynamic", "default", "", <<>>),
      N("ImportDeclaration", "@unpic/react", "named:Image", "", <<>>),
      N("ImportDeclaration", "@tanstack/react-query", "named:useQuery", "", <<>>),
      N("ImportDeclaration", "react-router-dom", "named:Link", "", <<>>),
      N("ImportDeclaration", "react", "default", "", <<>>),
      N("ExportNamedDeclaration", "getStaticProps", "FunctionDeclaration", "body", <<>>),
      N("JSXElement", "Image", "", "self", <<JA("src", "a"), JA("layout", "fill")>>),
      N("JSXElement", "Link", "", "closed", <<JA("href", "/x"), JA("passHref", "")>>),
      N("JSXElement", "Head", "", "closed", <<>>),
      N("VariableDeclaration", "router", "useRouter", "top", <<>>),
      N("ClassDeclaration", "Gallery", "decorated", "", <<>>),
      N("Statement", "", "x", "", <<>>) }

PageModules == UNION {[1..n -> PagePool] : n \in 0..MaxNodes}

PageInit ==
    /\ \/ \E m \in PageModules : src = Text(m, "canonical")
       \/ src = Text(<<>>, "broken")
    /\ ast = <<>>
    /\ pos = 0
    /\ phase = "enter"
    /\ changes = <<>>
    /\ warnings = <<>>
    /\ fired = "none"
    /\ tpc = "parse"
    /\ out = noResult
    /\ ppc = "call"
    /\ page = <<>>

InitPage ==
    PageInit /\ FTIdle /\ RouterIdle /\ ExecIdle /\ AnalyzeIdle /\ ReducerIdle

\* lines 929-987, after transformWithAst has returned
PageComponent ==
    /\ ppc = "call"
    /\ tpc = "done"
    /\ page' = transformPageComponent(out)
    /\ ppc' = "returned"

NextPage ==
    \/ ParseOk /\ UNCHANGED notAst
    \/ ParseFails /\ UNCHANGED notAst
    \/ Visit /\ UNCHANGED notAst
    \/ VisitThrows /\ UNCHANGED notAst
    \/ GenerateAndReturn /\ UNCHANGED notAst
    \/ PageComponent /\ UNCHANGED <<astVars, notPage>>

SpecPage == InitPage /\ [][NextPage]_vars

\* the module a recorded change needs an import of
C24_Requires(ch, module) ==
    CASE ch.rule = "import" -> ch.y = module
      [] ch.rule = "jsx" ->
           \/ ch.x = "Image" /\ module = "@unpic/react"
           \/ ch.x = "Link" /\ module = "react-router-dom"
           \/ ch.x = "Head" /\ module = "react-helmet-async"
      [] ch.rule \in {"router", "call"} -> module = "react-router-dom"
      [] ch.rule = "dataFetching" -> module = "@tanstack/react-query"
      [] ch.rule = "dynamic" -> module = "react"
      [] OTHER -> FALSE

\* no injected import names a module the rewritten code imports already
C24_NoDoubleImport ==
    \A j \in 1..Len(page.addedImports), k \in 1..Len(out.code.nodes) :
        out.code.nodes[k].type = "ImportDeclaration" =>
            out.code.nodes[k].a # page.addedImports[j].a

\* every injected import is needed by a rule that fired
C24_OnlyRequired ==
    \A j \in 1..Len(page.addedImports) :
        \E k \in 1..Len(page.changes) :
            C24_Requires(page.changes[k], page.addedImports[j].a)

\* C24: after transformPageComponent no target module is imported both by an
\* injected import and by an import already present in the rewritten code,
\* and no import is injected that no fired rule requires.
C24_InjectionOnlyWhenMissing ==
    ppc = "returned" => (C24_NoDoubleImport /\ C24_OnlyRequired)

==========================================================================
